---- MODULE Spec2Model ----
(***************************************************************************)
(* NutriPlan: the diet-plan generation pipeline of src/src/lib/gemini.ts   *)
(* (GeminiAPI) and the persistence of its result by                        *)
(* src/src/pages/DietPlans.tsx (generatePlanFromWizard).                   *)
(*                                                                         *)
(* A text is a sequence of one-character strings.  Indices are 1-based;    *)
(* where the source keeps a 0-based index with -1 for "none", the model    *)
(* keeps the 1-based index with 0 for "none".                              *)
(***************************************************************************)
EXTENDS Integers, Sequences, FiniteSets, TLC

(***************************************************************************)
(* Characters                                                              *)
(***************************************************************************)
DQ == "\""
BS == "\\"
NL == "\n"
\* the backtick of a markdown fence: SANY reads no backtick inside a string, so the
\* character is written by name
BT == "<backtick>"

\* JavaScript \s and String.prototype.trim (the members that occur in texts)
IsSpace(c) == c \in {" ", NL, "\t", "\r"}
\* JavaScript line terminators: what "." does not match and "$" (flag m) stops at
IsLineTerminator(c) == c \in {NL, "\r"}
Digits == {"0", "1", "2", "3", "4", "5", "6", "7", "8", "9"}
DigitVal(c) ==
    CASE c = "0" -> 0 [] c = "1" -> 1 [] c = "2" -> 2 [] c = "3" -> 3
      [] c = "4" -> 4 [] c = "5" -> 5 [] c = "6" -> 6 [] c = "7" -> 7
      [] c = "8" -> 8 [] c = "9" -> 9

SetMin(S) == CHOOSE x \in S : \A y \in S : x <= y
SetMax(S) == CHOOSE x \in S : \A y \in S : x >= y

\* String.prototype.startsWith / endsWith
StartsWith(s, p) == Len(s) >= Len(p) /\ SubSeq(s, 1, Len(p)) = p
EndsWith(s, p) == Len(s) >= Len(p) /\ SubSeq(s, Len(s) - Len(p) + 1, Len(s)) = p
\* String.prototype.indexOf / lastIndexOf of one character (0: not found)
IndexOf(s, c) ==
    LET at == {i \in 1..Len(s) : s[i] = c} IN IF at = {} THEN 0 ELSE SetMin(at)
LastIndexOf(s, c) ==
    LET at == {i \in 1..Len(s) : s[i] = c} IN IF at = {} THEN 0 ELSE SetMax(at)
\* String.prototype.trim
Trim(s) ==
    LET at == {i \in 1..Len(s) : ~IsSpace(s[i])}
    IN  IF at = {} THEN <<>> ELSE SubSeq(s, SetMin(at), SetMax(at))
\* (s.match(/c/g) || []).length
CountChar(s, c) == Cardinality({i \in 1..Len(s) : s[i] = c})
\* c.repeat(n)
Repeat(c, n) == [i \in 1..n |-> c]

(***************************************************************************)
(* JSON values (what JSON.parse returns), tagged by their JavaScript type  *)
(***************************************************************************)
JUndefined == [t |-> "undefined"]
JNull == [t |-> "null"]
JBool(b) == [t |-> "boolean", b |-> b]
\* n: the integer part with its sign; f: the characters of a fraction or exponent
JNum(n) == [t |-> "number", n |-> n, f |-> <<>>]
JStr(s) == [t |-> "string", s |-> s]
JArr(a) == [t |-> "array", a |-> a]
\* o: a function from property names (texts) to values
JObj(o) == [t |-> "object", o |-> o]

\* JavaScript truthiness: !v is ~Truthy(v)
Truthy(v) ==
    CASE v.t = "undefined" -> FALSE
      [] v.t = "null" -> FALSE
      [] v.t = "boolean" -> v.b
      [] v.t = "number" -> ~(v.n = 0 /\ v.f = <<>>)
      [] v.t = "string" -> v.s # <<>>
      [] OTHER -> TRUE
\* typeof v
TypeOf(v) == IF v.t \in {"null", "array"} THEN "object" ELSE v.t
\* Array.isArray(v)
IsArray(v) == v.t = "array"
\* v.key for a value that is neither null nor undefined (those throw a TypeError)
Prop(v, key) ==
    IF v.t = "object" /\ key \in DOMAIN v.o THEN v.o[key] ELSE JUndefined

(***************************************************************************)
(* JSON.parse: the ECMAScript JSON grammar, by recursive descent.          *)
(* A result is [ok, v, next]: the value and the index after it, or, when   *)
(* ok is FALSE, the index of the character the SyntaxError reports.        *)
(***************************************************************************)
IsJsonWs(c) == c \in {" ", NL, "\t", "\r"}
IsControl(c) == c \in {NL, "\t", "\r"}
HexDigits == Digits \cup {"a", "b", "c", "d", "e", "f", "A", "B", "C", "D", "E", "F"}

ParseOk(v, i) == [ok |-> TRUE, v |-> v, next |-> i]
ParseFail(i) == [ok |-> FALSE, v |-> JUndefined, next |-> i]

\* the first index at or after i that holds no whitespace (Len(t) + 1: none)
SkipWs(t, i) ==
    LET at == {j \in i..Len(t) : ~IsJsonWs(t[j])}
    IN  IF at = {} THEN Len(t) + 1 ELSE SetMin(at)

\* the first index at or after i that holds no digit
SkipDigits(t, i) ==
    LET at == {j \in i..Len(t) : t[j] \notin Digits}
    IN  IF at = {} THEN Len(t) + 1 ELSE SetMin(at)

RECURSIVE DecimalValue(_, _, _)
DecimalValue(t, i, j) ==
    IF j < i THEN 0 ELSE 10 * DecimalValue(t, i, j - 1) + DigitVal(t[j])

\* the character an escape \c stands for; an escape \uXXXX is kept as the
\* marker "<u>" followed by its four digits
EscapeChar(c) ==
    CASE c = "n" -> NL [] c = "t" -> "\t" [] c = "r" -> "\r"
      [] c = "b" -> "<backspace>" [] c = "f" -> "<formfeed>"
      [] OTHER -> c

\* the characters of a string literal, from the index after its opening quote
RECURSIVE ParseChars(_, _, _)
ParseChars(t, i, acc) ==
    IF i > Len(t) THEN ParseFail(i)
    ELSE IF t[i] = DQ THEN ParseOk(JStr(acc), i + 1)
    ELSE IF t[i] = BS THEN
        IF i + 1 > Len(t) THEN ParseFail(i + 1)
        ELSE IF t[i + 1] \in {DQ, BS, "/", "b", "f", "n", "r", "t"}
            THEN ParseChars(t, i + 2, Append(acc, EscapeChar(t[i + 1])))
        ELSE IF t[i + 1] = "u" THEN
            IF /\ i + 5 <= Len(t)
               /\ \A k \in (i + 2)..(i + 5) : t[k] \in HexDigits
            THEN ParseChars(t, i + 6, acc \o <<"<u>">> \o SubSeq(t, i + 2, i + 5))
            ELSE ParseFail(i + 2)
        ELSE ParseFail(i + 1)
    ELSE IF IsControl(t[i]) THEN ParseFail(i)
    ELSE ParseChars(t, i + 1, Append(acc, t[i]))

\* -? (0 | [1-9][0-9]*) (. [0-9]+)? ([eE] [+-]? [0-9]+)?
ParseNumber(t, i) ==
    LET neg == t[i] = "-"
        d == IF neg THEN i + 1 ELSE i
    IN  IF d > Len(t) \/ t[d] \notin Digits THEN ParseFail(d)
        ELSE
          LET intEnd == IF t[d] = "0" THEN d + 1 ELSE SkipDigits(t, d)
              abs == DecimalValue(t, d, intEnd - 1)
              hasFrac == intEnd <= Len(t) /\ t[intEnd] = "."
              fracEnd == IF hasFrac THEN SkipDigits(t, intEnd + 1) ELSE intEnd
              hasExp == fracEnd <= Len(t) /\ t[fracEnd] \in {"e", "E"}
              sign == IF hasExp /\ fracEnd + 1 <= Len(t) /\ t[fracEnd + 1] \in {"+", "-"}
                      THEN fracEnd + 2 ELSE fracEnd + 1
              expEnd == IF hasExp THEN SkipDigits(t, sign) ELSE fracEnd
          IN  IF hasFrac /\ fracEnd = intEnd + 1 THEN ParseFail(fracEnd)
              ELSE IF hasExp /\ expEnd = sign THEN ParseFail(sign)
              ELSE ParseOk([t |-> "number", n |-> IF neg THEN 0 - abs ELSE abs,
                            f |-> SubSeq(t, intEnd, expEnd - 1)], expEnd)

\* the literals true, false and null
ParseLiteral(t, i, word, v) ==
    LET same == {k \in 1..Len(word) : i + k - 1 <= Len(t) /\ t[i + k - 1] = word[k]}
        bad == (1..Len(word)) \ same
    IN  IF bad = {} THEN ParseOk(v, i + Len(word)) ELSE ParseFail(i + SetMin(bad) - 1)

RECURSIVE ParseValue(_, _), ParseElements(_, _, _), ParseMembers(_, _, _)
\* a value that starts at index i (no whitespace before it)
ParseValue(t, i) ==
    IF i > Len(t) THEN ParseFail(i)
    ELSE IF t[i] = "{" THEN ParseMembers(t, i + 1, <<>>)
    ELSE IF t[i] = "[" THEN ParseElements(t, i + 1, <<>>)
    ELSE IF t[i] = DQ THEN ParseChars(t, i + 1, <<>>)
    ELSE IF t[i] = "-" \/ t[i] \in Digits THEN ParseNumber(t, i)
    ELSE IF t[i] = "t" THEN ParseLiteral(t, i, <<"t", "r", "u", "e">>, JBool(TRUE))
    ELSE IF t[i] = "f" THEN ParseLiteral(t, i, <<"f", "a", "l", "s", "e">>, JBool(FALSE))
    ELSE IF t[i] = "n" THEN ParseLiteral(t, i, <<"n", "u", "l", "l">>, JNull)
    ELSE ParseFail(i)

\* the elements of an array, from the index after "[" or after a ","; acc: the
\* elements read so far (empty only right after "[")
ParseElements(t, i, acc) ==
    LET j == SkipWs(t, i)
    IN  IF j > Len(t) THEN ParseFail(j)
        ELSE IF t[j] = "]" /\ acc = <<>> THEN ParseOk(JArr(<<>>), j + 1)
        ELSE
          LET r == ParseValue(t, j)
              k == SkipWs(t, r.next)
          IN  IF ~r.ok THEN r
              ELSE IF k > Len(t) THEN ParseFail(k)
              ELSE IF t[k] = "," THEN ParseElements(t, k + 1, Append(acc, r.v))
              ELSE IF t[k] = "]" THEN ParseOk(JArr(Append(acc, r.v)), k + 1)
              ELSE ParseFail(k)

\* the members of an object, from the index after "{" or after a ","; acc: the
\* object read so far (empty only right after "{"); a repeated name keeps its
\* last value
ParseMembers(t, i, acc) ==
    LET j == SkipWs(t, i)
    IN  IF j > Len(t) THEN ParseFail(j)
        ELSE IF t[j] = "}" /\ DOMAIN acc = {} THEN ParseOk(JObj(acc), j + 1)
        ELSE IF t[j] # DQ THEN ParseFail(j)
        ELSE
          LET name == ParseChars(t, j + 1, <<>>)
              c == SkipWs(t, name.next)
              r == ParseValue(t, SkipWs(t, c + 1))
              k == SkipWs(t, r.next)
              obj == [p \in (DOMAIN acc) \cup {name.v.s} |->
                        IF p = name.v.s THEN r.v ELSE acc[p]]
          IN  IF ~name.ok THEN name
              ELSE IF c > Len(t) \/ t[c] # ":" THEN ParseFail(c)
              ELSE IF ~r.ok THEN r
              ELSE IF k > Len(t) THEN ParseFail(k)
              ELSE IF t[k] = "," THEN ParseMembers(t, k + 1, obj)
              ELSE IF t[k] = "}" THEN ParseOk(JObj(obj), k + 1)
              ELSE ParseFail(k)

\* after the value r of the text: whitespace and nothing else
ParseEnd(text, r) ==
    IF ~r.ok THEN r
    ELSE IF SkipWs(text, r.next) <= Len(text) THEN ParseFail(SkipWs(text, r.next))
    ELSE r

\* JSON.parse(text): one value, whitespace around it, and nothing else
JSONParse(text) == ParseEnd(text, ParseValue(text, SkipWs(text, 1)))


(***************************************************************************)
(* GeminiAPI.extractJsonFromText                                           *)
(***************************************************************************)
ExtractStart ==
    [braceCount |-> 0, startIndex |-> 0, endIndex |-> 0,
     inString |-> FALSE, escapeNext |-> FALSE]

\* one iteration of the scanning loop at index i; the loop breaks when it sets
\* endIndex, so an iteration after that changes nothing
ExtractStep(st, text, i) ==
    LET char == text[i]
    IN  IF st.endIndex # 0 THEN st
        ELSE IF st.escapeNext THEN [st EXCEPT !.escapeNext = FALSE]
        ELSE IF char = BS THEN [st EXCEPT !.escapeNext = TRUE]
        ELSE IF char = DQ THEN [st EXCEPT !.inString = ~st.inString]
        ELSE IF st.inString THEN st
        ELSE IF char = "{" THEN
            [st EXCEPT !.startIndex = IF st.braceCount = 0 THEN i ELSE st.startIndex,
                       !.braceCount = st.braceCount + 1]
        ELSE IF char = "}" THEN
            [st EXCEPT !.braceCount = st.braceCount - 1,
                       !.endIndex = IF st.braceCount - 1 = 0 /\ st.startIndex # 0
                                    THEN i ELSE 0]
        ELSE st

\* the iterations lo..hi of the loop, in order, up to the break (the range is
\* split in halves, which keeps the evaluation shallow on a long text)
RECURSIVE ExtractScan(_, _, _, _)
ExtractScan(st, text, lo, hi) ==
    IF lo > hi THEN st
    ELSE IF lo = hi THEN ExtractStep(st, text, lo)
    ELSE LET mid == (lo + hi) \div 2
             left == ExtractScan(st, text, lo, mid)
         IN  IF left.endIndex # 0 THEN left ELSE ExtractScan(left, text, mid + 1, hi)

\* a second strategy that would end the span at the first closing brace
ResultToFirstClose(text, st) ==
    LET jsonStart == IndexOf(text, "{")
        jsonEnd == IndexOf(text, "}")
    IN  IF st.startIndex # 0 /\ st.endIndex # 0
            THEN SubSeq(text, st.startIndex, st.endIndex)
        ELSE IF jsonStart # 0 /\ jsonEnd # 0 /\ jsonStart < jsonEnd
            THEN SubSeq(text, jsonStart, jsonEnd)
        ELSE text

\* what extractJsonFromText returns when its loop ends in state st
ExtractResult(text, st) ==
    LET jsonStart == IndexOf(text, "{")
        jsonEnd == LastIndexOf(text, "}")
    IN  IF st.startIndex # 0 /\ st.endIndex # 0
            THEN SubSeq(text, st.startIndex, st.endIndex)
        ELSE IF jsonStart # 0 /\ jsonEnd # 0 /\ jsonStart < jsonEnd
            THEN SubSeq(text, jsonStart, jsonEnd)
        ELSE text

extractJsonFromText(text) ==
    ExtractResult(text, ExtractScan(ExtractStart, text, 1, Len(text)))

(***************************************************************************)
(* GeminiAPI.cleanJsonResponse                                             *)
(***************************************************************************)
FenceJson == <<BT, BT, BT, "j", "s", "o", "n">>
Fence == <<BT, BT, BT>>

\* s.replace(/<fence>\s*/, '') for an s that starts with the fence
StripFenceStart(s, fence) ==
    LET at == {j \in (Len(fence) + 1)..Len(s) : ~IsSpace(s[j])}
    IN  IF at = {} THEN <<>> ELSE SubSeq(s, SetMin(at), Len(s))

\* s.replace(/\s*```$/, ''): the closing fence at the very end of s and the
\* whitespace before it
StripFenceEnd(s) ==
    IF ~EndsWith(s, Fence) THEN s
    ELSE LET at == {j \in 1..(Len(s) - 3) : ~IsSpace(s[j])}
         IN  IF at = {} THEN <<>> ELSE SubSeq(s, 1, SetMax(at))

\* the characters of s at the indices lo..hi that are not in drop
RECURSIVE Keep(_, _, _, _)
Keep(s, drop, lo, hi) ==
    IF lo > hi THEN <<>>
    ELSE IF lo = hi THEN (IF lo \in drop THEN <<>> ELSE <<s[lo]>>)
    ELSE LET mid == (lo + hi) \div 2
         IN  Keep(s, drop, lo, mid) \o Keep(s, drop, mid + 1, hi)

\* a regular-expression replace with flag g looks for a match at each index in
\* turn and goes on after the match; st.drop: the indices matched so far,
\* st.skip: the last index of the latest match
\* /\/\*[\s\S]*?\*\//g : from "/*" to the first "*/" after it
BlockCommentStep(st, s, i) ==
    LET ends == {j \in (i + 2)..(Len(s) - 1) : s[j] = "*" /\ s[j + 1] = "/"}
    IN  IF i <= st.skip THEN st
        ELSE IF s[i] = "/" /\ i + 1 <= Len(s) /\ s[i + 1] = "*" /\ ends # {}
            THEN [drop |-> st.drop \cup (i..(SetMin(ends) + 1)), skip |-> SetMin(ends) + 1]
        ELSE st

\* /\/\/.*$/gm : from "//" to the end of the line
LineCommentStep(st, s, i) ==
    LET lts == {j \in (i + 2)..Len(s) : IsLineTerminator(s[j])}
        last == IF lts = {} THEN Len(s) ELSE SetMin(lts) - 1
    IN  IF i <= st.skip THEN st
        ELSE IF s[i] = "/" /\ i + 1 <= Len(s) /\ s[i + 1] = "/"
            THEN [drop |-> st.drop \cup (i..last), skip |-> last]
        ELSE st

RECURSIVE BlockCommentScan(_, _, _, _)
BlockCommentScan(st, s, lo, hi) ==
    IF lo > hi THEN st
    ELSE IF lo = hi THEN BlockCommentStep(st, s, lo)
    ELSE LET mid == (lo + hi) \div 2
             left == BlockCommentScan(st, s, lo, mid)
         IN  IF left.skip >= hi THEN left ELSE BlockCommentScan(left, s, mid + 1, hi)

RECURSIVE LineCommentScan(_, _, _, _)
LineCommentScan(st, s, lo, hi) ==
    IF lo > hi THEN st
    ELSE IF lo = hi THEN LineCommentStep(st, s, lo)
    ELSE LET mid == (lo + hi) \div 2
             left == LineCommentScan(st, s, lo, mid)
         IN  IF left.skip >= hi THEN left ELSE LineCommentScan(left, s, mid + 1, hi)

RemoveBlockComments(s) ==
    Keep(s, BlockCommentScan([drop |-> {}, skip |-> 0], s, 1, Len(s)).drop, 1, Len(s))
RemoveLineComments(s) ==
    Keep(s, LineCommentScan([drop |-> {}, skip |-> 0], s, 1, Len(s)).drop, 1, Len(s))

\* /,(\s*[}\]])/g replaced by '$1': a comma followed, after whitespace only, by
\* a closing brace or bracket is removed
RemoveTrailingCommas(s) ==
    LET closers == {j \in 1..Len(s) : s[j] \in {"}", "]"}}
        drop == {i \in 1..Len(s) :
                    /\ s[i] = ","
                    /\ \E j \in closers :
                          j > i /\ \A k \in (i + 1)..(j - 1) : IsSpace(s[k])}
    IN  Keep(s, drop, 1, Len(s))

\* the markdown code block markers are removed from a trimmed text
StripFences(trimmed) ==
    IF StartsWith(trimmed, FenceJson)
        THEN StripFenceEnd(StripFenceStart(trimmed, FenceJson))
    ELSE IF StartsWith(trimmed, Fence)
        THEN StripFenceEnd(StripFenceStart(trimmed, Fence))
    ELSE trimmed

cleanJsonResponse(response) ==
    Trim(RemoveTrailingCommas(RemoveLineComments(RemoveBlockComments(
        extractJsonFromText(StripFences(Trim(response)))))))

(***************************************************************************)
(* GeminiAPI.validateAndParseJson                                          *)
(***************************************************************************)
\* one attempt: JSON.parse(text), then Object.keys(parsed) for the log line,
\* which throws a TypeError when parsed is null
LogKeys(r) == IF r.ok /\ r.v.t = "null" THEN ParseFail(0) ELSE r
ParseAttempt(text) == LogKeys(JSONParse(text))

\* the steps of the repair, in order
\* everything before the first "{" is removed
CutBeforeFirstBrace(s) ==
    IF ~StartsWith(s, <<"{">>) /\ IndexOf(s, "{") > 1
    THEN SubSeq(s, IndexOf(s, "{"), Len(s)) ELSE s
\* everything after the last "}" is removed
CutAfterLastBrace(s) ==
    IF ~EndsWith(s, <<"}">>) /\ LastIndexOf(s, "}") # 0
    THEN SubSeq(s, 1, LastIndexOf(s, "}")) ELSE s
\* a comma at the very end is removed
DropLastComma(s) == IF EndsWith(s, <<",">>) THEN SubSeq(s, 1, Len(s) - 1) ELSE s
\* the missing closing braces are appended
CloseBraces(s) ==
    IF CountChar(s, "{") > CountChar(s, "}")
    THEN s \o Repeat("}", CountChar(s, "{") - CountChar(s, "}")) ELSE s
\* then the missing closing brackets
CloseBrackets(s) ==
    IF CountChar(s, "[") > CountChar(s, "]")
    THEN s \o Repeat("]", CountChar(s, "[") - CountChar(s, "]")) ELSE s

\* the text the second attempt parses
FixJson(jsonString) ==
    CloseBrackets(CloseBraces(DropLastComma(CutAfterLastBrace(CutBeforeFirstBrace(jsonString)))))

\* a validateAndParseJson that would report the error of the repair attempt
ParseResultWithLastError(direct, fixed) ==
    IF direct.ok THEN [ok |-> TRUE, v |-> direct.v, error |-> 0, attempts |-> 1]
    ELSE IF fixed.ok THEN [ok |-> TRUE, v |-> fixed.v, error |-> 0, attempts |-> 2]
    ELSE [ok |-> FALSE, v |-> JUndefined, error |-> fixed.next, attempts |-> 2]

\* [ok, v, error, attempts] for the results of the two attempts: the parsed
\* value, or the failure 'JSON parsing failed: ' followed by the message of the
\* direct attempt's error, which the model keeps as that error's index; the
\* second attempt is made only when the first fails
ParseResult(direct, fixed) ==
    IF direct.ok THEN [ok |-> TRUE, v |-> direct.v, error |-> 0, attempts |-> 1]
    ELSE IF fixed.ok THEN [ok |-> TRUE, v |-> fixed.v, error |-> 0, attempts |-> 2]
    ELSE [ok |-> FALSE, v |-> JUndefined, error |-> direct.next, attempts |-> 2]

validateAndParseJson(jsonString) ==
    ParseResult(ParseAttempt(jsonString), ParseAttempt(FixJson(jsonString)))


(***************************************************************************)
(* The text of a JSON value, as the model endpoint writes it when it       *)
(* follows the JSON STRUCTURE of the prompt (compact, no whitespace).      *)
(***************************************************************************)
DigitChar(d) ==
    CASE d = 0 -> "0" [] d = 1 -> "1" [] d = 2 -> "2" [] d = 3 -> "3"
      [] d = 4 -> "4" [] d = 5 -> "5" [] d = 6 -> "6" [] d = 7 -> "7"
      [] d = 8 -> "8" [] d = 9 -> "9"

RECURSIVE NatText(_)
NatText(n) == IF n < 10 THEN <<DigitChar(n)>> ELSE NatText(n \div 10) \o <<DigitChar(n % 10)>>
IntText(n) == IF n < 0 THEN <<"-">> \o NatText(0 - n) ELSE NatText(n)

RECURSIVE QuoteChars(_)
QuoteChars(s) ==
    IF s = <<>> THEN <<>>
    ELSE (IF Head(s) \in {DQ, BS} THEN <<BS, Head(s)>> ELSE <<Head(s)>>) \o QuoteChars(Tail(s))
StringText(s) == <<DQ>> \o QuoteChars(s) \o <<DQ>>

RECURSIVE Stringify(_), StringifyElements(_), StringifyMembers(_, _)
Stringify(v) ==
    CASE v.t = "null" -> <<"n", "u", "l", "l">>
      [] v.t = "boolean" -> IF v.b THEN <<"t", "r", "u", "e">> ELSE <<"f", "a", "l", "s", "e">>
      [] v.t = "number" -> IntText(v.n) \o v.f
      [] v.t = "string" -> StringText(v.s)
      [] v.t = "array" -> <<"[">> \o StringifyElements(v.a) \o <<"]">>
      [] v.t = "object" -> <<"{">> \o StringifyMembers(v.o, DOMAIN v.o) \o <<"}">>
StringifyElements(a) ==
    IF a = <<>> THEN <<>>
    ELSE Stringify(Head(a)) \o (IF Len(a) > 1 THEN <<",">> ELSE <<>>) \o StringifyElements(Tail(a))
StringifyMembers(o, names) ==
    IF names = {} THEN <<>>
    ELSE LET p == CHOOSE q \in names : TRUE
         IN  StringText(p) \o <<":">> \o Stringify(o[p])
               \o (IF names = {p} THEN <<>> ELSE <<",">>) \o StringifyMembers(o, names \ {p})


(***************************************************************************)
(* Property names and string constants of the plan objects                 *)
(***************************************************************************)
KeyMeals == <<"m", "e", "a", "l", "s">>
KeyName == <<"n", "a", "m", "e">>
KeyMealType == <<"m", "e", "a", "l", "T", "y", "p", "e">>
KeyCalories == <<"c", "a", "l", "o", "r", "i", "e", "s">>
KeyProtein == <<"p", "r", "o", "t", "e", "i", "n">>
KeyCarbs == <<"c", "a", "r", "b", "s">>
KeyFat == <<"f", "a", "t">>
KeyDayNumber == <<"d", "a", "y", "N", "u", "m", "b", "e", "r">>
KeyDayName == <<"d", "a", "y", "N", "a", "m", "e">>
KeyTotalDayCalories == <<"t", "o", "t", "a", "l", "D", "a", "y", "C", "a", "l", "o", "r", "i", "e", "s">>
KeyTotalCalories == <<"t", "o", "t", "a", "l", "C", "a", "l", "o", "r", "i", "e", "s">>
KeyDurationWeeks == <<"d", "u", "r", "a", "t", "i", "o", "n", "W", "e", "e", "k", "s">>
KeyDescription == <<"d", "e", "s", "c", "r", "i", "p", "t", "i", "o", "n">>

Breakfast == <<"b", "r", "e", "a", "k", "f", "a", "s", "t">>
Lunch == <<"l", "u", "n", "c", "h">>
Dinner == <<"d", "i", "n", "n", "e", "r">>
Snack == <<"s", "n", "a", "c", "k">>
\* type GeneratedMeal['mealType']
MealTypes == {Breakfast, Lunch, Dinner, Snack}

\* const days
days ==
    << <<"M", "o", "n", "d", "a", "y">>,
       <<"T", "u", "e", "s", "d", "a", "y">>,
       <<"W", "e", "d", "n", "e", "s", "d", "a", "y">>,
       <<"T", "h", "u", "r", "s", "d", "a", "y">>,
       <<"F", "r", "i", "d", "a", "y">>,
       <<"S", "a", "t", "u", "r", "d", "a", "y">>,
       <<"S", "u", "n", "d", "a", "y">> >>

\* const mealTemplates: the name of each template, by meal type, in the order of the
\* source (a template's description, ingredients and instructions are handed
\* through to the meal unchanged and are not kept)
BreakfastTemplates ==
    << <<"N", "u", "t", "r", "i", "t", "i", "o", "u", "s", " ", "O", "a", "t", "m", "e", "a", "l", " ", "B", "o", "w", "l">>,
       <<"A", "v", "o", "c", "a", "d", "o", " ", "T", "o", "a", "s", "t", " ", "S", "u", "p", "r", "e", "m", "e">>,
       <<"G", "r", "e", "e", "k", " ", "Y", "o", "g", "u", "r", "t", " ", "P", "a", "r", "f", "a", "i", "t">>,
       <<"S", "m", "o", "o", "t", "h", "i", "e", " ", "B", "o", "w", "l", " ", "D", "e", "l", "i", "g", "h", "t">>,
       <<"P", "r", "o", "t", "e", "i", "n", " ", "P", "a", "n", "c", "a", "k", "e", "s">>,
       <<"B", "r", "e", "a", "k", "f", "a", "s", "t", " ", "Q", "u", "i", "n", "o", "a", " ", "B", "o", "w", "l">>,
       <<"V", "e", "g", "g", "i", "e", " ", "S", "c", "r", "a", "m", "b", "l", "e">> >>
LunchTemplates ==
    << <<"M", "e", "d", "i", "t", "e", "r", "r", "a", "n", "e", "a", "n", " ", "Q", "u", "i", "n", "o", "a", " ", "P", "o", "w", "e", "r", " ", "B", "o", "w", "l">>,
       <<"G", "r", "i", "l", "l", "e", "d", " ", "C", "h", "i", "c", "k", "e", "n", " ", "&", " ", "H", "u", "m", "m", "u", "s", " ", "W", "r", "a", "p">>,
       <<"R", "a", "i", "n", "b", "o", "w", " ", "B", "u", "d", "d", "h", "a", " ", "B", "o", "w", "l">>,
       <<"A", "s", "i", "a", "n", " ", "L", "e", "t", "t", "u", "c", "e", " ", "W", "r", "a", "p", "s">>,
       <<"L", "e", "n", "t", "i", "l", " ", "S", "o", "u", "p">>,
       <<"C", "a", "p", "r", "e", "s", "e", " ", "S", "a", "l", "a", "d">>,
       <<"T", "u", "n", "a", " ", "S", "a", "l", "a", "d", " ", "B", "o", "w", "l">> >>
DinnerTemplates ==
    << <<"H", "e", "r", "b", "-", "C", "r", "u", "s", "t", "e", "d", " ", "B", "a", "k", "e", "d", " ", "S", "a", "l", "m", "o", "n">>,
       <<"V", "e", "g", "e", "t", "a", "b", "l", "e", " ", "C", "u", "r", "r", "y", " ", "w", "i", "t", "h", " ", "C", "o", "c", "o", "n", "u", "t", " ", "R", "i", "c", "e">>,
       <<"L", "e", "a", "n", " ", "T", "u", "r", "k", "e", "y", " ", "M", "e", "a", "t", "b", "a", "l", "l", "s", " ", "w", "i", "t", "h", " ", "Z", "u", "c", "c", "h", "i", "n", "i", " ", "N", "o", "o", "d", "l", "e", "s">>,
       <<"S", "t", "u", "f", "f", "e", "d", " ", "B", "e", "l", "l", " ", "P", "e", "p", "p", "e", "r", "s">>,
       <<"G", "r", "i", "l", "l", "e", "d", " ", "C", "h", "i", "c", "k", "e", "n", " ", "w", "i", "t", "h", " ", "S", "w", "e", "e", "t", " ", "P", "o", "t", "a", "t", "o">>,
       <<"F", "i", "s", "h", " ", "T", "a", "c", "o", "s">>,
       <<"E", "g", "g", "p", "l", "a", "n", "t", " ", "P", "a", "r", "m", "e", "s", "a", "n">> >>
SnackTemplates ==
    << <<"G", "r", "e", "e", "k", " ", "Y", "o", "g", "u", "r", "t", " ", "B", "e", "r", "r", "y", " ", "B", "o", "w", "l">>,
       <<"E", "n", "e", "r", "g", "y", " ", "T", "r", "a", "i", "l", " ", "M", "i", "x">>,
       <<"A", "p", "p", "l", "e", " ", "w", "i", "t", "h", " ", "A", "l", "m", "o", "n", "d", " ", "B", "u", "t", "t", "e", "r">>,
       <<"H", "u", "m", "m", "u", "s", " ", "a", "n", "d", " ", "V", "e", "g", "g", "i", "e", "s">>,
       <<"P", "r", "o", "t", "e", "i", "n", " ", "S", "m", "o", "o", "t", "h", "i", "e">> >>
mealTemplates(mealType) ==
    CASE mealType = Breakfast -> BreakfastTemplates
      [] mealType = Lunch -> LunchTemplates
      [] mealType = Dinner -> DinnerTemplates
      [] mealType = Snack -> SnackTemplates
      [] OTHER -> BreakfastTemplates

\* an object literal: pairs is a sequence of <<property name, value>>
ObjectOf(pairs) ==
    JObj([p \in {pairs[i][1] : i \in 1..Len(pairs)} |->
            pairs[SetMax({i \in 1..Len(pairs) : pairs[i][1] = p})][2]])

(***************************************************************************)
(* GeminiAPI.validateDietPlanStructure                                     *)
(***************************************************************************)
RequiredDays == 7

\* the test of one meal (the inner loop's body): FALSE is "return false"
ValidMealStructure(meal) ==
    ~(\/ ~Truthy(meal)
      \/ ~Truthy(Prop(meal, KeyName))
      \/ ~Truthy(Prop(meal, KeyMealType))
      \/ TypeOf(Prop(meal, KeyCalories)) # "number")

\* a test of one day without the test for an empty meal list
ValidDayWithoutEmptyTest(day) ==
    /\ ~(\/ ~Truthy(day)
         \/ ~Truthy(Prop(day, KeyMeals))
         \/ ~IsArray(Prop(day, KeyMeals)))
    /\ \A j \in 1..Len(Prop(day, KeyMeals).a) : ValidMealStructure(Prop(day, KeyMeals).a[j])

\* the test of one day (the outer loop's body)
ValidDayStructure(day) ==
    /\ ~(\/ ~Truthy(day)
         \/ ~Truthy(Prop(day, KeyMeals))
         \/ ~IsArray(Prop(day, KeyMeals))
         \/ Len(Prop(day, KeyMeals).a) = 0)
    /\ \A j \in 1..Len(Prop(day, KeyMeals).a) : ValidMealStructure(Prop(day, KeyMeals).a[j])

\* a validator without the test of the number of days
validateWithoutDayCount(dietPlan) ==
    /\ ~(~Truthy(dietPlan) \/ TypeOf(dietPlan) # "object")
    /\ ~(~Truthy(Prop(dietPlan, KeyMeals)) \/ ~IsArray(Prop(dietPlan, KeyMeals)))
    /\ \A i \in 1..Len(Prop(dietPlan, KeyMeals).a) :
          ValidDayStructure(Prop(dietPlan, KeyMeals).a[i])

validateDietPlanStructure(dietPlan) ==
    /\ ~(~Truthy(dietPlan) \/ TypeOf(dietPlan) # "object")
    /\ ~(~Truthy(Prop(dietPlan, KeyMeals)) \/ ~IsArray(Prop(dietPlan, KeyMeals)))
    /\ ~(Len(Prop(dietPlan, KeyMeals).a) # RequiredDays)
    /\ \A i \in 1..Len(Prop(dietPlan, KeyMeals).a) :
          ValidDayStructure(Prop(dietPlan, KeyMeals).a[i])

(***************************************************************************)
(* The Caloric Model: GeminiAPI.calculateBMR and calculateDailyCalories.   *)
(* The source computes in floating point; the model computes the same      *)
(* quantities exactly, the BMR in hundredths of a kilocalorie and the      *)
(* activity multipliers in thousandths.                                    *)
(***************************************************************************)
\* Math.round(num / den) for den > 0: the nearest integer, a half rounded up
RoundDiv(num, den) == (2 * num + den) \div (2 * den)

\* a BMR that would take the female constant for 'female' only and the male
\* one for every other gender
FemaleOnlyBMR(profile) ==
    IF profile.gender = "female"
    THEN 1000 * profile.weight + 625 * profile.height - 500 * profile.age - 16100
    ELSE 1000 * profile.weight + 625 * profile.height - 500 * profile.age + 500

\* 100 * BMR
calculateBMR(profile) ==
    IF profile.gender = "male"
    THEN 1000 * profile.weight + 625 * profile.height - 500 * profile.age + 500
    ELSE 1000 * profile.weight + 625 * profile.height - 500 * profile.age - 16100

\* 1000 * activityMultipliers[activityLevel] || 1.2
ActivityMultiplier(activityLevel) ==
    CASE activityLevel = "sedentary" -> 1200
      [] activityLevel = "light" -> 1375
      [] activityLevel = "moderate" -> 1550
      [] activityLevel = "active" -> 1725
      [] activityLevel = "very_active" -> 1900
      [] OTHER -> 1200

\* bmr: 100 * BMR; tdee: 100000 * TDEE
calculateDailyCalories(bmr, activityLevel, goal) ==
    LET tdee == bmr * ActivityMultiplier(activityLevel)
    IN  CASE goal = "weight_loss" -> RoundDiv(tdee - 500 * 100000, 100000)
          [] goal = "muscle_gain" -> RoundDiv(tdee + 300 * 100000, 100000)
          [] OTHER -> RoundDiv(tdee, 100000)

(***************************************************************************)
(* GeminiAPI.getComprehensiveFallbackDietPlan                              *)
(***************************************************************************)
\* const mealTypes
FallbackMealTypes(preferences) ==
    <<Breakfast, Lunch, Dinner>>
      \o (IF preferences.mealsPerDay > 3 THEN <<Snack>> ELSE <<>>)
      \o (IF preferences.mealsPerDay > 4 THEN <<Snack>> ELSE <<>>)

\* a.slice(n): what is left when the first n are dropped, not kept
SliceFrom(a, n) == SubSeq(a, n + 1, Len(a))

\* a.slice(0, n) for n >= 0
SliceTo(a, n) == SubSeq(a, 1, IF n < Len(a) THEN n ELSE Len(a))

\* a generator that would serve the first template of the library every day
FirstTemplateMeal(mealType, dayIndex, caloriesPerMeal) ==
    LET templates == mealTemplates(mealType)
        template == templates[1]
    IN  ObjectOf(<< <<KeyName, JStr(template)>>,
                    <<KeyMealType, JStr(mealType)>>,
                    <<KeyCalories, JNum(caloriesPerMeal)>>,
                    <<KeyProtein, JNum(RoundDiv(caloriesPerMeal * 25, 400))>>,
                    <<KeyCarbs, JNum(RoundDiv(caloriesPerMeal * 45, 400))>>,
                    <<KeyFat, JNum(RoundDiv(caloriesPerMeal * 30, 900))>> >>)

\* a generator whose meals would carry macros fixed per template, not derived
\* from the calories of the meal
TemplateMacrosMeal(mealType, dayIndex, caloriesPerMeal) ==
    LET templates == mealTemplates(mealType)
        template == templates[(dayIndex % Len(templates)) + 1]
    IN  ObjectOf(<< <<KeyName, JStr(template)>>,
                    <<KeyMealType, JStr(mealType)>>,
                    <<KeyCalories, JNum(caloriesPerMeal)>>,
                    <<KeyProtein, JNum(30)>>,
                    <<KeyCarbs, JNum(45)>>,
                    <<KeyFat, JNum(15)>> >>)

\* one meal of the plan (the inner map's callback); dayIndex counts from 0
FallbackMeal(mealType, dayIndex, caloriesPerMeal) ==
    LET templates == mealTemplates(mealType)
        template == templates[(dayIndex % Len(templates)) + 1]
    IN  ObjectOf(<< <<KeyName, JStr(template)>>,
                    <<KeyMealType, JStr(mealType)>>,
                    <<KeyCalories, JNum(caloriesPerMeal)>>,
                    <<KeyProtein, JNum(RoundDiv(caloriesPerMeal * 25, 400))>>,
                    <<KeyCarbs, JNum(RoundDiv(caloriesPerMeal * 45, 400))>>,
                    <<KeyFat, JNum(RoundDiv(caloriesPerMeal * 30, 900))>> >>)

\* a generator that would number the days as the map callback counts them, from 0
ZeroBasedDay(dayIndex, dailyCals, preferences) ==
    LET types == SliceTo(FallbackMealTypes(preferences), preferences.mealsPerDay)
        caloriesPerMeal == RoundDiv(dailyCals, preferences.mealsPerDay)
    IN  ObjectOf(<< <<KeyDayNumber, JNum(dayIndex)>>,
                    <<KeyDayName, JStr(days[dayIndex + 1])>>,
                    <<KeyTotalDayCalories, JNum(dailyCals)>>,
                    <<KeyMeals, JArr([m \in 1..Len(types) |->
                                        FallbackMeal(types[m], dayIndex, caloriesPerMeal)])>> >>)

\* one day of the plan (the outer map's callback); dayIndex counts from 0
FallbackDay(dayIndex, dailyCals, preferences) ==
    LET types == SliceTo(FallbackMealTypes(preferences), preferences.mealsPerDay)
        caloriesPerMeal == RoundDiv(dailyCals, preferences.mealsPerDay)
    IN  ObjectOf(<< <<KeyDayNumber, JNum(dayIndex + 1)>>,
                    <<KeyDayName, JStr(days[dayIndex + 1])>>,
                    <<KeyTotalDayCalories, JNum(dailyCals)>>,
                    <<KeyMeals, JArr([m \in 1..Len(types) |->
                                        FallbackMeal(types[m], dayIndex, caloriesPerMeal)])>> >>)

\* const fallbackPlan (its name and description, two fixed texts, are not kept)
FallbackPlan(dailyCals, preferences, userProfile) ==
    ObjectOf(<< <<KeyTotalCalories, JNum(dailyCals)>>,
                <<KeyDurationWeeks,
                  JNum(IF userProfile.timelineWeeks # 0 THEN userProfile.timelineWeeks ELSE 4)>>,
                <<KeyMeals, JArr([d \in 1..Len(days) |->
                                    FallbackDay(d - 1, dailyCals, preferences)])>> >>)

\* [ok, plan]: the plan returned, or ok = FALSE for the thrown
\* 'Fallback diet plan generation failed - this should never happen'
getComprehensiveFallbackDietPlan(dailyCals, preferences, userProfile) ==
    LET fallbackPlan == FallbackPlan(dailyCals, preferences, userProfile)
    IN  IF ~validateDietPlanStructure(fallbackPlan)
        THEN [ok |-> FALSE, plan |-> JUndefined]
        ELSE [ok |-> TRUE, plan |-> fallbackPlan]


(***************************************************************************)
(* GeminiAPI.makeRequest                                                   *)
(***************************************************************************)
KeyCandidates == <<"c", "a", "n", "d", "i", "d", "a", "t", "e", "s">>
KeyContent == <<"c", "o", "n", "t", "e", "n", "t">>
KeyParts == <<"p", "a", "r", "t", "s">>
KeyText == <<"t", "e", "x", "t">>

\* const GEMINI_API_KEY = import.meta.env.VITE_GEMINI_API_KEY || 'demo-key'
\* (env: the variable's value, "<undefined>" when it is not set)
GeminiApiKey(env) == IF env \in {"<undefined>", ""} THEN "demo-key" ELSE env

\* a guard that would only test for an empty key, and let the placeholder through
EmptyKeyOnly(env) == GeminiApiKey(env) = ""

\* the guard at the head of makeRequest: TRUE is "throw new Error('API_KEY_MISSING')"
ApiKeyMissing(env) == GeminiApiKey(env) = "" \/ GeminiApiKey(env) = "demo-key"

RequestOk(text) == [ok |-> TRUE, text |-> text, error |-> "none"]
RequestError(message) == [ok |-> FALSE, text |-> <<>>, error |-> message]

\* checks that would not test candidate.content before reading its parts: for
\* a content that is null or undefined the read throws a TypeError, which the
\* catch clause of makeRequest replaces by its general error
UnguardedEnvelope(data) ==
    LET candidates == Prop(data, KeyCandidates)
        candidate == candidates.a[1]
        content == Prop(candidate, KeyContent)
        parts == Prop(content, KeyParts)
        part == parts.a[1]
    IN  IF \/ ~Truthy(data) \/ ~Truthy(candidates) \/ ~IsArray(candidates)
           \/ Len(candidates.a) = 0
            THEN RequestError("Unexpected response format")
        ELSE IF ~Truthy(candidate)
            THEN RequestError("Unexpected response format")
        ELSE IF content.t \in {"undefined", "null"}
            THEN RequestError("Failed to generate content with AI")
        ELSE IF ~Truthy(parts) \/ ~IsArray(parts) \/ Len(parts.a) = 0
            THEN RequestError("Unexpected response format")
        ELSE IF ~Truthy(part) \/ Prop(part, KeyText).t # "string"
            THEN RequestError("Unexpected response format")
        ELSE RequestOk(Prop(part, KeyText).s)

\* the checks of the response body (data), after response.json()
HandleEnvelope(data) ==
    LET candidates == Prop(data, KeyCandidates)
        candidate == candidates.a[1]
        content == Prop(candidate, KeyContent)
        parts == Prop(content, KeyParts)
        part == parts.a[1]
    IN  IF \/ ~Truthy(data) \/ ~Truthy(candidates) \/ ~IsArray(candidates)
           \/ Len(candidates.a) = 0
            THEN RequestError("Unexpected response format")
        ELSE IF \/ ~Truthy(candidate) \/ ~Truthy(content) \/ ~Truthy(parts)
                \/ ~IsArray(parts) \/ Len(parts.a) = 0
            THEN RequestError("Unexpected response format")
        ELSE IF ~Truthy(part) \/ Prop(part, KeyText).t # "string"
            THEN RequestError("Unexpected response format")
        ELSE RequestOk(Prop(part, KeyText).s)

\* makeRequest from the point where fetch settles. settled.kind = "rejected":
\* fetch threw; otherwise a response with its ok flag, whether its body is
\* JSON (response.json() throws if not), and the body
HandleResponse(settled) ==
    IF settled.kind = "rejected" THEN RequestError("Failed to generate content with AI")
    ELSE IF ~settled.ok THEN RequestError("Failed to generate content with AI")
    ELSE IF ~settled.json THEN RequestError("Failed to generate content with AI")
    ELSE HandleEnvelope(settled.body)

\* the failure of the spec's taxonomy that an error message of makeRequest stands for
FailureOf(message) ==
    CASE message = "API_KEY_MISSING" -> "ApiKeyMissing"
      [] message = "Unexpected response format" -> "MalformedEnvelope"
      [] OTHER -> "TransportError"


(***************************************************************************)
(* Requests: the profiles and preferences the wizard sends                 *)
(* (DietPlans.tsx, generatePlanFromWizard, const request)                  *)
(***************************************************************************)
MinMealsPerDay == 3
MaxMealsPerDay == 6

Profiles ==
    { [age |-> 30, gender |-> "male", height |-> 180, weight |-> 80,
       activityLevel |-> "sedentary", goal |-> "maintenance", timelineWeeks |-> 12],
      [age |-> 45, gender |-> "female", height |-> 165, weight |-> 60,
       activityLevel |-> "moderate", goal |-> "weight_loss", timelineWeeks |-> 0],
      [age |-> 25, gender |-> "other", height |-> 171, weight |-> 57,
       activityLevel |-> "very_active", goal |-> "muscle_gain", timelineWeeks |-> 8],
      [age |-> 61, gender |-> "male", height |-> 175, weight |-> 93,
       activityLevel |-> "athlete", goal |-> "weight_loss", timelineWeeks |-> 4] }

\* more profiles, for the fallback generator alone
WideProfiles ==
    { [age |-> ag, gender |-> ge, height |-> he, weight |-> we,
       activityLevel |-> al, goal |-> go, timelineWeeks |-> 8] :
        ag \in {18, 80}, ge \in {"male", "female"}, he \in {150, 185}, we \in {45, 120},
        al \in {"sedentary", "light", "moderate", "active", "very_active"},
        go \in {"weight_loss", "muscle_gain", "maintenance"} }

Preferences == {[mealsPerDay |-> m] : m \in MinMealsPerDay..MaxMealsPerDay}

Requests == {[userProfile |-> up, preferences |-> pr] : up \in Profiles, pr \in Preferences}
NoRequest ==
    [userProfile |-> [age |-> 0, gender |-> "none", height |-> 0, weight |-> 0,
                      activityLevel |-> "none", goal |-> "none", timelineWeeks |-> 0],
     preferences |-> [mealsPerDay |-> 0]]

\* const dailyCalories of generateDietPlan
DailyCaloriesOf(userProfile) ==
    calculateDailyCalories(calculateBMR(userProfile), userProfile.activityLevel,
                           userProfile.goal)

\* getComprehensiveFallbackDietPlan for each call generateDietPlan can make
FallbackTable ==
    [call \in {<<DailyCaloriesOf(up), pr, up>> :
                  up \in Profiles \cup WideProfiles, pr \in Preferences} |->
        getComprehensiveFallbackDietPlan(call[1], call[2], call[3])]

\* the values the prompt template interpolates
BuildPrompt(userProfile, preferences, dailyCals) ==
    [age |-> userProfile.age, gender |-> userProfile.gender, goal |-> userProfile.goal,
     activityLevel |-> userProfile.activityLevel, dailyCalories |-> dailyCals,
     mealsPerDay |-> preferences.mealsPerDay,
     exampleCalories |-> RoundDiv(dailyCals, preferences.mealsPerDay)]
NoPrompt == [age |-> 0, gender |-> "none", goal |-> "none", activityLevel |-> "none",
             dailyCalories |-> 0, mealsPerDay |-> 0, exampleCalories |-> 0]

(***************************************************************************)
(* What the model endpoint may answer: plan objects, their texts, and the  *)
(* ways fetch can settle                                                   *)
(***************************************************************************)
MaxDays == 8

NameOats == <<"O", "a", "t", "s">>
NameBowl == <<"R", "i", "c", "e", " ", "B", "o", "w", "l">>
Brunch == <<"b", "r", "u", "n", "c", "h">>

AiMeal(mealName, mealType, calories) ==
    ObjectOf(<< <<KeyName, mealName>>, <<KeyMealType, mealType>>, <<KeyCalories, calories>> >>)
GoodMeal == AiMeal(JStr(NameOats), JStr(Breakfast), JNum(400))
OtherMeal == AiMeal(JStr(NameBowl), JStr(Dinner), JNum(650))
AiDay(mealList) == ObjectOf(<< <<KeyMeals, JArr(mealList)>> >>)
GoodDay == AiDay(<<GoodMeal>>)
AiPlan(dayList) ==
    ObjectOf(<< <<KeyTotalCalories, JNum(2000)>>, <<KeyDurationWeeks, JNum(1)>>,
                <<KeyMeals, JArr(dayList)>> >>)
\* a plan of n good days
PlanOfDays(n) == AiPlan([d \in 1..n |-> GoodDay])
\* a plan of 7 days, good but for one day
PlanWithDay(at, day) == AiPlan([d \in 1..RequiredDays |-> IF d = at THEN day ELSE GoodDay])
\* a plan of 7 days, good but for one meal
PlanWithMeal(at, slot, meal) ==
    PlanWithDay(at, AiDay([m \in 1..2 |-> IF m = slot THEN meal ELSE OtherMeal]))

\* days the validator is to reject
BadDays ==
    { JNull, ObjectOf(<< >>), AiDay(<< >>),
      ObjectOf(<< <<KeyMeals, JNum(5)>> >>), ObjectOf(<< <<KeyMeals, JStr(NameOats)>> >>),
      ObjectOf(<< <<KeyMeals, JNull>> >>), ObjectOf(<< <<KeyMeals, GoodMeal>> >>) }
\* meals lacking one of name, mealType and numeric calories
BadMeals ==
    { JNull,
      AiMeal(JStr(<<>>), JStr(Lunch), JNum(400)),
      ObjectOf(<< <<KeyMealType, JStr(Lunch)>>, <<KeyCalories, JNum(400)>> >>),
      AiMeal(JStr(NameOats), JStr(<<>>), JNum(400)),
      AiMeal(JStr(NameOats), JNull, JNum(400)),
      ObjectOf(<< <<KeyName, JStr(NameOats)>>, <<KeyCalories, JNum(400)>> >>),
      AiMeal(JStr(NameOats), JStr(Lunch), JStr(<<"4", "0", "0">>)),
      AiMeal(JStr(NameOats), JStr(Lunch), JNull),
      ObjectOf(<< <<KeyName, JStr(NameOats)>>, <<KeyMealType, JStr(Lunch)>> >>) }
\* meals with a name, a mealType and numeric calories that are still not
\* meals of the GeneratedMeal type
OddMeals ==
    { AiMeal(JStr(NameOats), JStr(Brunch), JNum(400)),
      AiMeal(JStr(NameOats), JNum(7), JNum(400)),
      AiMeal(JStr(NameOats), JStr(Snack), JNum(-50)),
      AiMeal(JNum(1), JStr(Snack), JNum(0)) }


\* the values a response may be the text of
AiValues ==
    {PlanOfDays(n) : n \in 0..MaxDays}
      \cup {PlanWithDay(3, bad) : bad \in BadDays}
      \cup {PlanWithMeal(3, 2, bad) : bad \in BadMeals \cup OddMeals}
      \cup { ObjectOf(<< <<KeyMeals, JArr([d \in 1..RequiredDays |-> GoodDay])>> >>),
             JNull, JNum(5), JArr(<< >>), ObjectOf(<< >>),
             ObjectOf(<< <<KeyMeals, JNum(5)>> >>) }

GoodText == Stringify(PlanOfDays(RequiredDays))
\* the good plan inside a code fence
FencedText == <<BT, BT, BT, "j", "s", "o", "n", NL>> \o GoodText \o <<NL, BT, BT, BT>>
\* the good plan between two sentences
WrappedText == <<"H", "e", "r", "e", " ", "i", "s", " ", "y", "o", "u", "r", " ", "p", "l", "a", "n", ":", " ">> \o GoodText \o <<" ", "E", "n", "j", "o", "y", "!">>
\* the good plan with a comma before its last closing brace
CommaText == SubSeq(GoodText, 1, Len(GoodText) - 1) \o <<",", NL, "}">>
\* the good plan cut off in its last day
TruncatedText == SubSeq(GoodText, 1, Len(GoodText) - 40)
\* no JSON at all
ProseText == <<"I", " ", "c", "a", "n", "n", "o", "t", " ", "h", "e", "l", "p", " ", "w", "i", "t", "h", " ", "t", "h", "a", "t", ".">>

ResponseTexts ==
    {Stringify(val) : val \in AiValues}
      \cup {FencedText, WrappedText, CommaText, TruncatedText, ProseText, << >>}

EnvelopeOf(partList) ==
    ObjectOf(<< <<KeyCandidates,
                  JArr(<< ObjectOf(<< <<KeyContent,
                                        ObjectOf(<< <<KeyParts, partList>> >>)>> >>) >>)>> >>)
BadEnvelopes ==
    { JNull, JNum(5), ObjectOf(<< >>),
      ObjectOf(<< <<KeyCandidates, JNum(5)>> >>),
      ObjectOf(<< <<KeyCandidates, JArr(<< >>)>> >>),
      ObjectOf(<< <<KeyCandidates, JArr(<<JNull>>)>> >>),
      ObjectOf(<< <<KeyCandidates, JArr(<<ObjectOf(<< >>)>>)>> >>),
      ObjectOf(<< <<KeyCandidates, JArr(<<ObjectOf(<< <<KeyContent, ObjectOf(<< >>)>> >>)>>)>> >>),
      EnvelopeOf(JStr(NameOats)),
      EnvelopeOf(JArr(<< >>)),
      EnvelopeOf(JArr(<<JNull>>)),
      EnvelopeOf(JArr(<<ObjectOf(<< >>)>>)),
      EnvelopeOf(JArr(<<ObjectOf(<< <<KeyText, JNum(5)>> >>)>>)),
      EnvelopeOf(JNull),
      ObjectOf(<< <<KeyCandidates, JArr(<<JStr(NameOats)>>)>> >>),
      ObjectOf(<< <<KeyCandidates, JArr(<<ObjectOf(<< <<KeyContent, JNull>> >>)>>)>> >>),
      ObjectOf(<< <<KeyCandidates, JArr(<<ObjectOf(<< <<KeyContent, JNum(5)>> >>)>>)>> >>) }

\* the body that carries an answer of the model
AnswerEnvelope(txt) == EnvelopeOf(JArr(<<ObjectOf(<< <<KeyText, JStr(txt)>> >>)>>))
Envelopes ==
    BadEnvelopes
      \cup {AnswerEnvelope(txt) : txt \in ResponseTexts}

\* the ways fetch settles: rejected, or a response
Settlements ==
    { [kind |-> "rejected", ok |-> FALSE, json |-> FALSE, body |-> JUndefined],
      [kind |-> "response", ok |-> FALSE, json |-> FALSE, body |-> JUndefined],
      [kind |-> "response", ok |-> TRUE, json |-> FALSE, body |-> JUndefined],
      [kind |-> "response", ok |-> FALSE, json |-> TRUE, body |-> AnswerEnvelope(GoodText)] }
      \cup {[kind |-> "response", ok |-> TRUE, json |-> TRUE, body |-> env] : env \in Envelopes}

\* fetch has not settled
NoSettlement == [kind |-> "none", ok |-> FALSE, json |-> FALSE, body |-> JUndefined]
\* a successful response that carries the answer txt
AnswerOf(txt) == [kind |-> "response", ok |-> TRUE, json |-> TRUE, body |-> AnswerEnvelope(txt)]

(***************************************************************************)
(* Answers cut short: the text of an object that ends in two closing       *)
(* braces, with the two braces missing and a comma left at the cut         *)
(***************************************************************************)
\* the values of the object's first property
OuterValues ==
    { JNum(1), JStr(<<"x">>), JBool(TRUE), JArr(<<JNum(1)>>),
      ObjectOf(<< <<(<<"x">>), JNum(1)>> >>),
      JArr(<< ObjectOf(<< <<(<<"x">>), JNum(1)>> >>) >>),
      JStr(<<"}">>), JStr(<<"{">>) }

\* the values of the innermost property
InnerValues ==
    { JNum(1), JStr(<<"x">>), JBool(TRUE), JNull, JArr(<<JNum(1)>>), JStr(<<"}">>) }

\* {"b":{"c":inner}}
NestedText(inner) ==
    <<"{">> \o StringText(<<"b">>) \o <<":", "{">> \o StringText(<<"c">>) \o <<":">>
       \o Stringify(inner) \o <<"}", "}">>

\* {"a":outer,"b":{"c":inner}}
SiblingText(outer, inner) ==
    <<"{">> \o StringText(<<"a">>) \o <<":">> \o Stringify(outer) \o <<",">>
       \o Tail(NestedText(inner))

\* {"a":{"b":{"c":inner}}}
DeepText(inner) ==
    <<"{">> \o StringText(<<"a">>) \o <<":">> \o NestedText(inner) \o <<"}">>

WellFormedTexts ==
    {NestedText(inner) : inner \in InnerValues}
      \cup {DeepText(inner) : inner \in InnerValues}
      \cup {SiblingText(outer, inner) : outer \in OuterValues, inner \in InnerValues}

\* the text without its last two characters, a comma in their place
CutTwoBraces(whole) == SubSeq(whole, 1, Len(whole) - 2) \o <<",">>

RepairTexts == {CutTwoBraces(whole) : whole \in WellFormedTexts}

(***************************************************************************)
(* Answers that are the text of a JSON object as it stands: string values  *)
(* that hold what a comment, a trailing comma or a brace looks like        *)
(***************************************************************************)
\* the string values
DelicateStrings ==
    { <<"x">>, <<"/", "/">>, <<"a", "/", "/", "b">>, <<"h", "t", "t", "p", ":", "/", "/", "x">>,
      <<"/", "*", "x", "*", "/">>, <<"/", "*">>, <<"a", "/", "*", "b", "*", "/", "c">>,
      <<",", "}">>, <<",", "]">>, <<"a", ",", " ", "}">>,
      <<"}">>, <<"{">>, <<"}", "{">>, <<DQ, "}">>, <<BS>> }

\* the values of a property: the strings, and values without strings
DelicateValues ==
    {JStr(str) : str \in DelicateStrings}
      \cup {JNum(1), JBool(TRUE), JNull, JArr(<<JNum(1), JNum(2)>>),
            ObjectOf(<< <<(<<"x">>), JNum(1)>> >>)}

\* the objects that hold the value: alone, in an array, in an object, and
\* before and after another property
ObjectsAround(val) ==
    { ObjectOf(<< <<(<<"a">>), val>> >>),
      ObjectOf(<< <<(<<"a">>), JArr(<<val>>)>> >>),
      ObjectOf(<< <<(<<"a">>), ObjectOf(<< <<(<<"x">>), val>> >>)>> >>),
      ObjectOf(<< <<(<<"a">>), val>>, <<(<<"b">>), JNum(1)>> >>),
      ObjectOf(<< <<(<<"a">>), JNum(1)>>, <<(<<"b">>), val>> >>) }

PreservedTexts == {Stringify(obj) : obj \in UNION {ObjectsAround(val) : val \in DelicateValues}}

\* validateAndParseJson(cleanJsonResponse(response)) for each response text
ParseTable ==
    [txt \in ResponseTexts \cup RepairTexts \cup PreservedTexts |->
        validateAndParseJson(cleanJsonResponse(txt))]


(***************************************************************************)
(* The diet_plans table and generatePlanFromWizard's use of it             *)
(***************************************************************************)
CurrentUser == "user-1"
OtherUser == "user-2"

PlanRow(id, userId, status, aiGenerated, totalCalories, durationWeeks) ==
    [id |-> id, user_id |-> userId, status |-> status, ai_generated |-> aiGenerated,
     total_calories |-> totalCalories, duration_weeks |-> durationWeeks]

\* the rows the table may hold when the wizard opens
InitialTables ==
    { << >>,
      <<PlanRow(1, CurrentUser, "active", TRUE, JNum(1800), JNum(4))>>,
      <<PlanRow(1, OtherUser, "active", TRUE, JNum(2200), JNum(4))>> }

\* update({status: 'paused'}).eq('user_id', userId).eq('status', 'active')
PauseActivePlans(table, userId) ==
    [r \in 1..Len(table) |->
        IF table[r].user_id = userId /\ table[r].status = "active"
        THEN [table[r] EXCEPT !.status = "paused"]
        ELSE table[r]]

\* the argument generatePlanFromWizard passes to createDietPlan
NewPlanRow(table, plan) ==
    PlanRow(Len(table) + 1, CurrentUser, "active", TRUE,
            Prop(plan, KeyTotalCalories), Prop(plan, KeyDurationWeeks))

\* Number(v) is NaN; a string counts as a number when it is empty or all digits
NumberIsNaN(val) ==
    CASE val.t = "undefined" -> TRUE
      [] val.t \in {"null", "boolean", "number"} -> FALSE
      [] val.t = "string" -> \E q \in 1..Len(val.s) : val.s[q] \notin Digits
      [] val.t = "array" -> val.a # << >>
      [] OTHER -> TRUE

\* new Date(Date.now() + plan.durationWeeks * 7 * 24 * 60 * 60 * 1000).toISOString()
\* throws a RangeError for an invalid date
EndDateThrows(plan) == NumberIsNaN(Prop(plan, KeyDurationWeeks))

(***************************************************************************)
(* State                                                                   *)
(***************************************************************************)
VARIABLES
    apiKeyEnv,      \* import.meta.env.VITE_GEMINI_API_KEY
    pc,             \* where generateDietPlan is
    request,        \* its argument
    dailyCalories,  \* const dailyCalories
    prompt,         \* const prompt
    fetchCount,     \* calls of fetch made for the request
    settlement,     \* how the fetch of makeRequest settled
    responseText,   \* const response, the text makeRequest returned
    parsedPlan,     \* let dietPlan, the value validateAndParseJson returned
    parseLog,       \* the parse attempts validateAndParseJson made, and its error
    verdict,        \* what validateDietPlanStructure returned for parsedPlan
    failure,        \* the failure that sent the request to the fallback
    generatedPlan,  \* the plan generateDietPlan returned
    wizard,         \* where generatePlanFromWizard is
    dietPlans       \* the diet_plans table

\* the state of the operations exercised on their own, outside a run of the wizard
VARIABLES
    calls,          \* the calls of getComprehensiveFallbackDietPlan made so far
    scanText,       \* the argument of a call of extractJsonFromText
    scanResult,     \* and what the call returned
    totalMealsToCreate,  \* let totalMealsToCreate of generatePlanFromWizard
    createdMealsCount,   \* let createdMealsCount
    mealIndex,      \* the meal the loops of generatePlanFromWizard are at
    recipes,        \* the rows the request has inserted into recipes
    meals,          \* the rows the request has inserted into meals
    mealLog,        \* what the console says of each meal of the batch
    invocations,    \* the locals of two invocations of generateDietPlan
    store,          \* the tables diet_plans, meals and meal_logs of the database
    sessions,       \* the calls of dietPlanAPI that are running or have ended
    parseCall       \* validateAndParseJson called alone: its argument and result

scan == <<scanText, scanResult>>
batch == <<totalMealsToCreate, createdMealsCount, mealIndex, recipes, meals, mealLog>>
tables == <<store, sessions>>
aux == <<calls, scan, batch, invocations, tables, parseCall>>

vars == <<apiKeyEnv, pc, request, dailyCalories, prompt, fetchCount, settlement,
          responseText, parsedPlan, parseLog, verdict, failure, generatedPlan, wizard, dietPlans, aux>>

\* nothing is exercised on its own
NoScan == [done |-> FALSE, text |-> << >>]

\* generateDietPlan is called twice while the first call is still running
InvocationIds == {1, 2}

\* the locals of an invocation that has not been made; order and resumed
\* number the invocations as they start and as their await resumes
NoLocals ==
    [pc |-> "Idle", order |-> 0, resumed |-> 0, request |-> NoRequest, dailyCalories |-> 0,
     prompt |-> NoPrompt, settlement |-> NoSettlement, generatedPlan |-> JUndefined]

NoInvocations == [r \in InvocationIds |-> NoLocals]

\* the browser tabs of the user, each making its calls of dietPlanAPI one
\* after the other
SessionIds == {1, 2}

EmptyStore == [plans |-> << >>, meals |-> {}, meal_logs |-> {}, nextId |-> 1]

\* no call of dietPlanAPI has been made in the session; paused is what the
\* update that pauses the active plans returned, before is the database as the
\* running or last call found it, done counts the calls that have ended
NoSession ==
    [op |-> "none", pc |-> "idle", planId |-> 0, paused |-> "none", result |-> "none",
     plan |-> 0, before |-> EmptyStore, done |-> 0]

\* validateAndParseJson has not been called alone; whole is the text that
\* jsonString was cut from
NoParseCall ==
    [whole |-> << >>, jsonString |-> << >>, done |-> FALSE,
     result |-> [ok |-> FALSE, v |-> JUndefined, error |-> 0, attempts |-> 0]]

TablesIdle ==
    /\ store = EmptyStore
    /\ sessions = [s \in SessionIds |-> NoSession]

\* generatePlanFromWizard has not come to its loops
NoBatch ==
    /\ totalMealsToCreate = 0
    /\ createdMealsCount = 0
    /\ mealIndex = 0
    /\ recipes = << >>
    /\ meals = << >>
    /\ mealLog = << >>

AuxIdle ==
    /\ calls = << >>
    /\ scanText = << >>
    /\ scanResult = NoScan
    /\ NoBatch
    /\ invocations = NoInvocations
    /\ TablesIdle
    /\ parseCall = NoParseCall

\* validateAndParseJson has not been called
NoParse == [attempts |-> 0, error |-> 0]

EnvKeys == {"<undefined>", "", "demo-key", "AIzaSy-key"}

Init ==
    /\ AuxIdle
    /\ apiKeyEnv \in EnvKeys
    /\ pc = "Idle"
    /\ request = NoRequest
    /\ dailyCalories = 0
    /\ prompt = NoPrompt
    /\ fetchCount = 0
    /\ settlement = NoSettlement
    /\ responseText = << >>
    /\ parsedPlan = JUndefined
    /\ parseLog = NoParse
    /\ verdict = "none"
    /\ failure = "none"
    /\ generatedPlan = JUndefined
    /\ wizard = "open"
    /\ dietPlans \in InitialTables


(***************************************************************************)
(* generateDietPlan, one action per stage                                  *)
(***************************************************************************)
\* Three other ways to handle a failure, which generateDietPlan does not take:
\* rethrowing it to the caller,
ThrowOnFailure(kind) == "Threw"
\* sending the prompt again unless the key is missing,
RetryOnFailure(kind) == IF kind = "ApiKeyMissing" THEN "Fallback" ELSE "Prompting"
\* and waiting for another answer of the model after a failed one
WaitOnFailure(kind) ==
    IF kind \in {"TransportError", "MalformedEnvelope"} THEN "AwaitingModel" ELSE "Fallback"

\* where a failure of a stage sends the request: the catch clauses and the
\* failure branches of generateDietPlan all call the fallback generator
OnFailure(kind) == "Fallback"

\* the wizard's button: generatePlanFromWizard builds the request and calls
\* generateDietPlan
StartGeneration ==
    /\ wizard = "open"
    /\ pc = "Idle"
    /\ \E req \in Requests : request' = req
    /\ wizard' = "generating"
    /\ pc' = "ComputingCalories"
    /\ UNCHANGED <<aux, parseLog, settlement, apiKeyEnv, dailyCalories, prompt, fetchCount, responseText, parsedPlan,
                   verdict, failure, generatedPlan, dietPlans>>

ComputeCalories ==
    /\ pc = "ComputingCalories"
    /\ dailyCalories' = DailyCaloriesOf(request.userProfile)
    /\ pc' = "Prompting"
    /\ UNCHANGED <<aux, parseLog, settlement, apiKeyEnv, request, prompt, fetchCount, responseText, parsedPlan,
                   verdict, failure, generatedPlan, wizard, dietPlans>>

\* the prompt is built and makeRequest runs to its first await: it throws
\* API_KEY_MISSING, or calls fetch
SendPrompt ==
    /\ pc = "Prompting"
    /\ prompt' = BuildPrompt(request.userProfile, request.preferences, dailyCalories)
    /\ IF ApiKeyMissing(apiKeyEnv)
       THEN /\ failure' = FailureOf("API_KEY_MISSING")
            /\ pc' = OnFailure(failure')
            /\ UNCHANGED fetchCount
       ELSE /\ fetchCount' = fetchCount + 1
            /\ pc' = "AwaitingModel"
            /\ UNCHANGED failure
    /\ UNCHANGED <<aux, parseLog, settlement, apiKeyEnv, request, dailyCalories, responseText, parsedPlan,
                   verdict, generatedPlan, wizard, dietPlans>>

\* fetch settles and makeRequest runs to its end
ModelSettles ==
    /\ pc = "AwaitingModel"
    /\ \E settled \in Settlements :
          LET res == HandleResponse(settled)
          IN  /\ settlement' = settled
              /\ IF res.ok
                 THEN /\ responseText' = res.text
                      /\ pc' = "Parsing"
                      /\ UNCHANGED failure
                 ELSE /\ failure' = FailureOf(res.error)
                      /\ pc' = OnFailure(failure')
                      /\ UNCHANGED responseText
    /\ UNCHANGED <<aux, parseLog, apiKeyEnv, request, dailyCalories, prompt, fetchCount, parsedPlan,
                   verdict, generatedPlan, wizard, dietPlans>>

ParseResponse ==
    /\ pc = "Parsing"
    /\ LET res == ParseTable[responseText]
       IN  /\ parseLog' = [attempts |-> res.attempts, error |-> res.error]
           /\ IF res.ok
              THEN /\ parsedPlan' = res.v
                   /\ pc' = "Validating"
                   /\ UNCHANGED failure
              ELSE /\ failure' = "UnparseableResponse"
                   /\ pc' = OnFailure(failure')
                   /\ UNCHANGED parsedPlan
    /\ UNCHANGED <<aux, settlement, apiKeyEnv, request, dailyCalories, prompt, fetchCount, responseText,
                   verdict, generatedPlan, wizard, dietPlans>>

ValidatePlan ==
    /\ pc = "Validating"
    /\ IF validateDietPlanStructure(parsedPlan)
       THEN /\ verdict' = "valid"
            /\ generatedPlan' = parsedPlan
            /\ pc' = "DoneAIPlan"
            /\ UNCHANGED failure
       ELSE /\ verdict' = "invalid"
            /\ failure' = "InvalidPlanShape"
            /\ pc' = OnFailure(failure')
            /\ UNCHANGED generatedPlan
    /\ UNCHANGED <<aux, parseLog, settlement, apiKeyEnv, request, dailyCalories, prompt, fetchCount, responseText,
                   parsedPlan, wizard, dietPlans>>

\* return this.getComprehensiveFallbackDietPlan(...): the plan is returned, or
\* the generator's error leaves generateDietPlan
GenerateFallback ==
    /\ pc = "Fallback"
    /\ LET res == FallbackTable[<<dailyCalories, request.preferences, request.userProfile>>]
       IN  IF res.ok
           THEN /\ generatedPlan' = res.plan
                /\ pc' = "DoneFallbackPlan"
           ELSE /\ pc' = "Threw"
                /\ UNCHANGED generatedPlan
    /\ UNCHANGED <<aux, parseLog, settlement, apiKeyEnv, request, dailyCalories, prompt, fetchCount, responseText,
                   parsedPlan, verdict, failure, wizard, dietPlans>>

(***************************************************************************)
(* generatePlanFromWizard after generateDietPlan, and createDietPlan       *)
(***************************************************************************)
\* the await of generateDietPlan resumes: an error goes to the catch clause;
\* otherwise createDietPlan is called and pauses the user's active plans (an
\* error of that update is not looked at)
CreateDietPlan ==
    /\ wizard = "generating"
    /\ pc \in {"DoneAIPlan", "DoneFallbackPlan", "Threw"}
    /\ IF pc = "Threw" \/ EndDateThrows(generatedPlan)
       THEN /\ wizard' = "error"
            /\ UNCHANGED dietPlans
       ELSE /\ wizard' = "inserting"
            /\ \E updated \in BOOLEAN :
                  dietPlans' = IF updated THEN PauseActivePlans(dietPlans, CurrentUser)
                               ELSE dietPlans
    /\ UNCHANGED <<aux, parseLog, settlement, apiKeyEnv, pc, request, dailyCalories, prompt, fetchCount, responseText,
                   parsedPlan, verdict, failure, generatedPlan>>

\* the insert of createDietPlan; its error is thrown to the wizard's catch clause
InsertPlan ==
    /\ wizard = "inserting"
    /\ \E inserted \in BOOLEAN :
          IF inserted
          THEN /\ dietPlans' = Append(dietPlans, NewPlanRow(dietPlans, generatedPlan))
               /\ wizard' = "planCreated"
          ELSE /\ wizard' = "error"
               /\ UNCHANGED dietPlans
    /\ UNCHANGED <<aux, parseLog, settlement, apiKeyEnv, pc, request, dailyCalories, prompt, fetchCount, responseText,
                   parsedPlan, verdict, failure, generatedPlan>>

Next ==
    \/ StartGeneration
    \/ ComputeCalories
    \/ SendPrompt
    \/ ModelSettles
    \/ ParseResponse
    \/ ValidatePlan
    \/ GenerateFallback
    \/ CreateDietPlan
    \/ InsertPlan

Spec == Init /\ [][Next]_vars

\* the runtime runs every continuation that is ready, and the model call
\* settles
FairSpec ==
    /\ Spec
    /\ WF_vars(ComputeCalories) /\ WF_vars(SendPrompt) /\ WF_vars(ModelSettles)
    /\ WF_vars(ParseResponse) /\ WF_vars(ValidatePlan) /\ WF_vars(GenerateFallback)


(***************************************************************************)
(* The validator alone: generateDietPlan in its Validating stage, for a    *)
(* wider set of parsed values                                              *)
(***************************************************************************)
\* a meal with every field of GeneratedMeal the model's objects carry
RichMeal ==
    ObjectOf(<< <<KeyName, JStr(NameBowl)>>, <<KeyMealType, JStr(Lunch)>>,
                <<KeyCalories, JNum(520)>>, <<KeyProtein, JNum(25)>>,
                <<KeyCarbs, JNum(45)>>, <<KeyFat, JNum(15)>>,
                <<KeyDescription, JStr(NameOats)>> >>)

ValidatorInputs ==
    {PlanOfDays(n) : n \in 0..MaxDays}
      \cup {PlanWithDay(at, bad) : at \in 1..RequiredDays, bad \in BadDays}
      \cup {PlanWithMeal(at, slot, ml) :
              at \in 1..RequiredDays, slot \in 1..2,
              ml \in BadMeals \cup OddMeals \cup {GoodMeal, RichMeal}}
      \cup { ObjectOf(<< <<KeyMeals, JArr([d \in 1..RequiredDays |-> GoodDay])>> >>),
             JNum(5), JBool(TRUE), JStr(NameOats), JArr(<< >>), ObjectOf(<< >>),
             ObjectOf(<< <<KeyMeals, JNum(5)>> >>),
             ObjectOf(<< <<KeyMeals, JStr(NameOats)>> >>) }

ValidatorRequest == CHOOSE req \in Requests : req.preferences.mealsPerDay = MinMealsPerDay

\* generateDietPlan has parsed the response text into one of the inputs
InitValidator ==
    /\ AuxIdle
    /\ apiKeyEnv = "AIzaSy-key"
    /\ pc = "Validating"
    /\ request = ValidatorRequest
    /\ dailyCalories = DailyCaloriesOf(request.userProfile)
    /\ prompt = BuildPrompt(request.userProfile, request.preferences, dailyCalories)
    /\ fetchCount = 1
    /\ parsedPlan \in ValidatorInputs
    /\ parseLog = [attempts |-> 1, error |-> 0]
    /\ responseText = Stringify(parsedPlan)
    /\ settlement = AnswerOf(responseText)
    /\ verdict = "none"
    /\ failure = "none"
    /\ generatedPlan = JUndefined
    /\ wizard = "generating"
    /\ dietPlans = << >>

NextValidator == ValidatePlan

SpecValidator == InitValidator /\ [][NextValidator]_vars

(***************************************************************************)
(* The fallback generator alone: generateDietPlan in its catch clause, for *)
(* a wider set of profiles                                                 *)
(***************************************************************************)
\* makeRequest has thrown API_KEY_MISSING
InitFallback ==
    /\ AuxIdle
    /\ apiKeyEnv = "demo-key"
    /\ pc = "Fallback"
    /\ request \in {[userProfile |-> up, preferences |-> pr] :
                        up \in WideProfiles, pr \in Preferences}
    /\ dailyCalories = DailyCaloriesOf(request.userProfile)
    /\ prompt = BuildPrompt(request.userProfile, request.preferences, dailyCalories)
    /\ fetchCount = 0
    /\ parsedPlan = JUndefined
    /\ parseLog = NoParse
    /\ settlement = NoSettlement
    /\ responseText = << >>
    /\ verdict = "none"
    /\ failure = "ApiKeyMissing"
    /\ generatedPlan = JUndefined
    /\ wizard = "generating"
    /\ dietPlans = << >>

NextFallback == GenerateFallback

SpecFallback == InitFallback /\ [][NextFallback]_vars


(***************************************************************************)
(* The fallback generator called several times in a row                    *)
(***************************************************************************)
MaxCalls == 3

\* no run of the wizard is under way
PipelineIdle ==
    /\ apiKeyEnv = "demo-key"
    /\ pc = "Idle"
    /\ request = NoRequest
    /\ dailyCalories = 0
    /\ prompt = NoPrompt
    /\ fetchCount = 0
    /\ settlement = NoSettlement
    /\ responseText = << >>
    /\ parsedPlan = JUndefined
    /\ parseLog = NoParse
    /\ verdict = "none"
    /\ failure = "none"
    /\ generatedPlan = JUndefined
    /\ wizard = "open"
    /\ dietPlans = << >>

pipeline == <<apiKeyEnv, pc, request, dailyCalories, prompt, fetchCount, settlement,
              responseText, parsedPlan, parseLog, verdict, failure, generatedPlan, wizard, dietPlans>>

\* the arguments of the calls: two profiles, every mealsPerDay
FallbackCalls ==
    {<<DailyCaloriesOf(up), pr, up>> :
        up \in {q \in Profiles : q.gender # "male"}, pr \in Preferences}

\* a generator whose mealTypes array would be shared by all calls: the snacks
\* pushed for an earlier call stay in it and are served again
SharedMealTypes(earlier, call) ==
    LET most == SetMax({call[2].mealsPerDay}
                         \cup {earlier[i].call[2].mealsPerDay : i \in 1..Len(earlier)})
    IN  FallbackTable[<<call[1], [mealsPerDay |-> most], call[3]>>]

\* getComprehensiveFallbackDietPlan called after the calls in earlier: it
\* builds days, mealTypes, mealTemplates and the plan anew from its arguments
\* and reads nothing an earlier call has left
FallbackAfter(earlier, call) == FallbackTable[call]

CallFallback ==
    /\ Len(calls) < MaxCalls
    /\ \E call \in FallbackCalls :
          calls' = Append(calls, [call |-> call, result |-> FallbackAfter(calls, call)])
    /\ UNCHANGED <<pipeline, scan, batch, invocations, tables, parseCall>>

InitCalls == PipelineIdle /\ AuxIdle

NextCalls == CallFallback

SpecCalls == InitCalls /\ [][NextCalls]_vars

(***************************************************************************)
(* The Caloric Model alone: generateDietPlan at its first two statements,  *)
(* for a wider set of profiles                                             *)
(***************************************************************************)
\* with genders, activity levels and goals outside the ones the code names
CaloricProfiles ==
    Profiles \cup WideProfiles
      \cup { [age |-> 30, gender |-> ge, height |-> 171, weight |-> 57,
              activityLevel |-> al, goal |-> go, timelineWeeks |-> 8] :
                ge \in {"male", "female", "other", ""},
                al \in {"light", "active", "athlete", ""},
                go \in {"weight_loss", "muscle_gain", "maintenance", "health", "bulk"} }

InitCalories ==
    /\ AuxIdle
    /\ apiKeyEnv = "AIzaSy-key"
    /\ pc = "ComputingCalories"
    /\ request \in {[userProfile |-> up, preferences |-> [mealsPerDay |-> MinMealsPerDay]] :
                        up \in CaloricProfiles}
    /\ dailyCalories = 0
    /\ prompt = NoPrompt
    /\ fetchCount = 0
    /\ settlement = NoSettlement
    /\ responseText = << >>
    /\ parsedPlan = JUndefined
    /\ parseLog = NoParse
    /\ verdict = "none"
    /\ failure = "none"
    /\ generatedPlan = JUndefined
    /\ wizard = "generating"
    /\ dietPlans = << >>

NextCalories == ComputeCalories

SpecCalories == InitCalories /\ [][NextCalories]_vars

(***************************************************************************)
(* extractJsonFromText alone, for every short text over a few characters   *)
(***************************************************************************)
MaxScanLen == 5

ScanChars == {"{", "}", DQ, BS, "a"}

ScanTexts == UNION {[1..n -> ScanChars] : n \in 0..MaxScanLen}

ExtractJson ==
    /\ ~scanResult.done
    /\ scanResult' = [done |-> TRUE, text |-> extractJsonFromText(scanText)]
    /\ UNCHANGED <<pipeline, calls, scanText, batch, invocations, tables, parseCall>>

InitExtract ==
    /\ PipelineIdle
    /\ calls = << >>
    /\ scanText \in ScanTexts
    /\ scanResult = NoScan
    /\ NoBatch
    /\ invocations = NoInvocations
    /\ TablesIdle
    /\ parseCall = NoParseCall

NextExtract == ExtractJson

SpecExtract == InitExtract /\ [][NextExtract]_vars

(***************************************************************************)
(* The parsing stage alone: generateDietPlan after makeRequest has         *)
(* returned an answer cut short                                            *)
(***************************************************************************)
InitRepair ==
    /\ AuxIdle
    /\ apiKeyEnv = "AIzaSy-key"
    /\ pc = "Parsing"
    /\ request = ValidatorRequest
    /\ dailyCalories = DailyCaloriesOf(request.userProfile)
    /\ prompt = BuildPrompt(request.userProfile, request.preferences, dailyCalories)
    /\ fetchCount = 1
    /\ responseText \in RepairTexts
    /\ settlement = AnswerOf(responseText)
    /\ parsedPlan = JUndefined
    /\ parseLog = NoParse
    /\ verdict = "none"
    /\ failure = "none"
    /\ generatedPlan = JUndefined
    /\ wizard = "generating"
    /\ dietPlans = << >>

NextRepair == ParseResponse

SpecRepair == InitRepair /\ [][NextRepair]_vars

(***************************************************************************)
(* The parsing stage alone, for every answer of the model                  *)
(***************************************************************************)
InitParse ==
    /\ AuxIdle
    /\ apiKeyEnv = "AIzaSy-key"
    /\ pc = "Parsing"
    /\ request = ValidatorRequest
    /\ dailyCalories = DailyCaloriesOf(request.userProfile)
    /\ prompt = BuildPrompt(request.userProfile, request.preferences, dailyCalories)
    /\ fetchCount = 1
    /\ responseText \in ResponseTexts \cup RepairTexts
    /\ settlement = AnswerOf(responseText)
    /\ parsedPlan = JUndefined
    /\ parseLog = NoParse
    /\ verdict = "none"
    /\ failure = "none"
    /\ generatedPlan = JUndefined
    /\ wizard = "generating"
    /\ dietPlans = << >>

NextParse == ParseResponse

SpecParse == InitParse /\ [][NextParse]_vars

(***************************************************************************)
(* generatePlanFromWizard after createDietPlan: the recipes and meals of   *)
(* the plan are saved one by one (DietPlans.tsx, lines 265 to 373)         *)
(***************************************************************************)
\* [dayPlan, mealData] for the meals of the days from d on, in the order of the loops
RECURSIVE MealsFrom(_, _)
MealsFrom(dayList, d) ==
    IF d > Len(dayList) THEN << >>
    ELSE [m \in 1..Len(Prop(dayList[d], KeyMeals).a) |->
            [dayPlan |-> dayList[d], mealData |-> Prop(dayList[d], KeyMeals).a[m]]]
         \o MealsFrom(dayList, d + 1)

MealsToCreate(plan) == MealsFrom(Prop(plan, KeyMeals).a, 1)

\* Number(v) || fallback, for a value that is a number or absent
NumberOr(val, fallback) ==
    IF val.t = "number" /\ ~(val.n = 0 /\ val.f = << >>) THEN val ELSE JNum(fallback)

\* const validatedMealData, as the row createRecipe inserts
RecipeRow(table, mealData) ==
    [id |-> Len(table) + 1,
     name |-> Prop(mealData, KeyName),
     calories_per_serving |-> NumberOr(Prop(mealData, KeyCalories), 400)]

\* const mealEntry, as the row inserted into meals
MealRow(table, planId, recipeId, entry) ==
    [id |-> Len(table) + 1,
     diet_plan_id |-> planId,
     recipe_id |-> recipeId,
     day_number |-> Prop(entry.dayPlan, KeyDayNumber),
     meal_type |-> Prop(entry.mealData, KeyMealType),
     calories |-> NumberOr(Prop(entry.mealData, KeyCalories), 400)]

\* where the loops go after the meal at index
AfterMeal(index, total) == IF index + 1 > total THEN "loadingData" ELSE "creatingRecipe"

\* a catch clause that would throw the error on to the catch clause of the wizard
RethrowMealError(index, count, total) ==
    [wizard |-> "error", mealIndex |-> index, createdMealsCount |-> count]

\* the catch clause of the inner loop: the error is logged, the meal is
\* counted, and the loop goes on
SkipMeal(index, count, total) ==
    [wizard |-> AfterMeal(index, total), mealIndex |-> index + 1,
     createdMealsCount |-> count + 1]

\* createDietPlan has returned the row: the meals are counted and createRecipe
\* is called for the first one
BeginMeals ==
    /\ wizard = "planCreated"
    /\ totalMealsToCreate' = Len(MealsToCreate(generatedPlan))
    /\ createdMealsCount' = 0
    /\ mealIndex' = 1
    /\ wizard' = AfterMeal(0, totalMealsToCreate')
    /\ UNCHANGED <<apiKeyEnv, pc, request, dailyCalories, prompt, fetchCount, settlement,
                   responseText, parsedPlan, parseLog, verdict, failure, generatedPlan,
                   dietPlans, calls, scan, invocations, tables, parseCall, recipes, meals, mealLog>>

\* the insert of createRecipe settles: with a row, the meal entry is inserted
\* next; with an error, the catch clause runs
CreateRecipe ==
    /\ wizard = "creatingRecipe"
    /\ \E created \in BOOLEAN :
          IF created
          THEN /\ recipes' = Append(recipes,
                                   RecipeRow(recipes, MealsToCreate(generatedPlan)[mealIndex].mealData))
               /\ wizard' = "insertingMeal"
               /\ UNCHANGED <<mealIndex, createdMealsCount, mealLog>>
          ELSE LET next == SkipMeal(mealIndex, createdMealsCount, totalMealsToCreate)
               IN  /\ wizard' = next.wizard
                   /\ mealIndex' = next.mealIndex
                   /\ createdMealsCount' = next.createdMealsCount
                   /\ mealLog' = Append(mealLog, "Failed to create meal")
                   /\ UNCHANGED recipes
    /\ UNCHANGED <<apiKeyEnv, pc, request, dailyCalories, prompt, fetchCount, settlement,
                   responseText, parsedPlan, parseLog, verdict, failure, generatedPlan,
                   dietPlans, calls, scan, invocations, tables, parseCall, totalMealsToCreate, meals>>

\* the insert into meals settles: with a row, the meal is counted; with an
\* error, it is thrown to the catch clause
InsertMeal ==
    /\ wizard = "insertingMeal"
    /\ \E inserted \in BOOLEAN :
          IF inserted
          THEN /\ meals' = Append(meals,
                                 MealRow(meals, dietPlans[Len(dietPlans)].id,
                                         recipes[Len(recipes)].id,
                                         MealsToCreate(generatedPlan)[mealIndex]))
               /\ createdMealsCount' = createdMealsCount + 1
               /\ mealIndex' = mealIndex + 1
               /\ wizard' = AfterMeal(mealIndex, totalMealsToCreate)
               /\ mealLog' = Append(mealLog, "Created meal entry")
          ELSE LET next == SkipMeal(mealIndex, createdMealsCount, totalMealsToCreate)
               IN  /\ wizard' = next.wizard
                   /\ mealIndex' = next.mealIndex
                   /\ createdMealsCount' = next.createdMealsCount
                   /\ mealLog' = Append(mealLog, "Failed to create meal entry")
                   /\ UNCHANGED meals
    /\ UNCHANGED <<apiKeyEnv, pc, request, dailyCalories, prompt, fetchCount, settlement,
                   responseText, parsedPlan, parseLog, verdict, failure, generatedPlan,
                   dietPlans, calls, scan, invocations, tables, parseCall, totalMealsToCreate, recipes>>

\* loadData, which catches its own errors, and the success modal
LoadData ==
    /\ wizard = "loadingData"
    /\ wizard' = "success"
    /\ UNCHANGED <<apiKeyEnv, pc, request, dailyCalories, prompt, fetchCount, settlement,
                   responseText, parsedPlan, parseLog, verdict, failure, generatedPlan,
                   dietPlans, calls, scan, invocations, tables, parseCall, batch>>

\* the plans whose meals are saved: 7 days of one meal, and the same with two
\* meals on one of the days
BatchPlans == {PlanOfDays(RequiredDays), PlanWithMeal(2, 2, GoodMeal)}

\* createDietPlan has inserted the row of an AI plan
InitMeals ==
    /\ calls = << >>
    /\ scanText = << >>
    /\ scanResult = NoScan
    /\ NoBatch
    /\ invocations = NoInvocations
    /\ TablesIdle
    /\ parseCall = NoParseCall
    /\ apiKeyEnv = "AIzaSy-key"
    /\ pc = "DoneAIPlan"
    /\ request = ValidatorRequest
    /\ dailyCalories = DailyCaloriesOf(request.userProfile)
    /\ prompt = BuildPrompt(request.userProfile, request.preferences, dailyCalories)
    /\ fetchCount = 1
    /\ generatedPlan \in BatchPlans
    /\ parsedPlan = generatedPlan
    /\ responseText = Stringify(parsedPlan)
    /\ settlement = AnswerOf(responseText)
    /\ parseLog = [attempts |-> 1, error |-> 0]
    /\ verdict = "valid"
    /\ failure = "none"
    /\ wizard = "planCreated"
    /\ \E table \in InitialTables :
          dietPlans = Append(PauseActivePlans(table, CurrentUser),
                             NewPlanRow(table, generatedPlan))

NextMeals == BeginMeals \/ CreateRecipe \/ InsertMeal \/ LoadData

SpecMeals == InitMeals /\ [][NextMeals]_vars

\* the inserts settle and the continuations run
FairSpecMeals ==
    /\ SpecMeals
    /\ WF_vars(BeginMeals) /\ WF_vars(CreateRecipe) /\ WF_vars(InsertMeal)
    /\ WF_vars(LoadData)

(***************************************************************************)
(* Two invocations of generateDietPlan on the one geminiAPI object, each   *)
(* running to the await of makeRequest and resuming when its fetch settles *)
(***************************************************************************)
PairRequests ==
    {req \in Requests : req.userProfile.gender # "male"
                          /\ req.preferences.mealsPerDay \in {MinMealsPerDay, MaxMealsPerDay}}

PairSettlements ==
    { [kind |-> "rejected", ok |-> FALSE, json |-> FALSE, body |-> JUndefined],
      [kind |-> "response", ok |-> FALSE, json |-> TRUE, body |-> AnswerEnvelope(GoodText)],
      [kind |-> "response", ok |-> TRUE, json |-> TRUE, body |-> ObjectOf(<< >>)],
      AnswerOf(GoodText), AnswerOf(FencedText), AnswerOf(ProseText),
      AnswerOf(Stringify(PlanWithMeal(3, 2, AiMeal(JStr(NameOats), JStr(Brunch), JNum(400))))),
      AnswerOf(Stringify(PlanOfDays(RequiredDays - 1))) }

\* how many invocations have started, and how many have resumed
StartedSoFar(all) == Cardinality({q \in InvocationIds : all[q].order > 0})
ResumedSoFar(all) == Cardinality({q \in InvocationIds : all[q].resumed > 0})

\* an object whose dailyCalories, prompt and request would be fields of
\* geminiAPI: a continuation would read what the latest invocation has written
SharedLocals(all, r) ==
    all[CHOOSE q \in InvocationIds : all[q].order = StartedSoFar(all)]

\* userProfile, preferences, dailyCalories and prompt are parameters and
\* consts of the invocation: its continuation reads its own
Locals(all, r) == all[r]

\* return this.getComprehensiveFallbackDietPlan(dailyCalories, preferences, userProfile)
FallbackReturn(mine) ==
    LET res == FallbackTable[<<mine.dailyCalories, mine.request.preferences,
                               mine.request.userProfile>>]
    IN  IF res.ok THEN [pc |-> "DoneFallbackPlan", plan |-> res.plan]
        ELSE [pc |-> "Threw", plan |-> JUndefined]

\* generateDietPlan from the settlement of fetch to its return
ResumeWith(mine, settled) ==
    LET res == HandleResponse(settled)
    IN  IF ~res.ok THEN FallbackReturn(mine)
        ELSE LET parsed == ParseTable[res.text]
             IN  IF parsed.ok /\ validateDietPlanStructure(parsed.v)
                 THEN [pc |-> "DoneAIPlan", plan |-> parsed.v]
                 ELSE FallbackReturn(mine)

\* generateDietPlan is called: it runs to the await of makeRequest, which has
\* called fetch, or has thrown API_KEY_MISSING so that the fallback plan is returned
InvocationStarts(r) ==
    /\ invocations[r].pc = "Idle"
    /\ \E req \in PairRequests :
          LET cals == DailyCaloriesOf(req.userProfile)
              begun == [NoLocals EXCEPT !.order = StartedSoFar(invocations) + 1,
                                        !.request = req,
                                        !.dailyCalories = cals,
                                        !.prompt = BuildPrompt(req.userProfile,
                                                               req.preferences, cals)]
          IN  invocations' =
                [invocations EXCEPT ![r] =
                    IF ApiKeyMissing(apiKeyEnv)
                    THEN [begun EXCEPT !.pc = FallbackReturn(begun).pc,
                                       !.generatedPlan = FallbackReturn(begun).plan]
                    ELSE [begun EXCEPT !.pc = "AwaitingModel"]]
    /\ UNCHANGED <<pipeline, calls, scan, batch, tables, parseCall>>

\* the fetch of invocation r settles and its continuation runs to the return
InvocationResumes(r) ==
    /\ invocations[r].pc = "AwaitingModel"
    /\ \E settled \in PairSettlements :
          LET res == ResumeWith(Locals(invocations, r), settled)
          IN  invocations' =
                [invocations EXCEPT ![r].pc = res.pc,
                                    ![r].generatedPlan = res.plan,
                                    ![r].settlement = settled,
                                    ![r].resumed = ResumedSoFar(invocations) + 1]
    /\ UNCHANGED <<pipeline, calls, scan, batch, tables, parseCall>>

\* the key is configured, or left at its default
InitPair ==
    /\ apiKeyEnv \in {"demo-key", "AIzaSy-key"}
    /\ pc = "Idle"
    /\ request = NoRequest
    /\ dailyCalories = 0
    /\ prompt = NoPrompt
    /\ fetchCount = 0
    /\ settlement = NoSettlement
    /\ responseText = << >>
    /\ parsedPlan = JUndefined
    /\ parseLog = NoParse
    /\ verdict = "none"
    /\ failure = "none"
    /\ generatedPlan = JUndefined
    /\ wizard = "open"
    /\ dietPlans = << >>
    /\ AuxIdle

NextPair == \E r \in InvocationIds : InvocationStarts(r) \/ InvocationResumes(r)

SpecPair == InitPair /\ [][NextPair]_vars

(***************************************************************************)
(* dietPlanAPI on the database: createDietPlan, updateDietPlanStatus and   *)
(* deleteDietPlan, one action per statement awaited (gemini.ts, lines 1467 *)
(* to 1608); a statement returns its rows or an error                      *)
(***************************************************************************)
MaxSerialCalls == 3
MaxRaceCalls == 1

\* a row of diet_plans, of meals and of meal_logs, by the columns the calls read
StoredPlan(id, userId, status) == [id |-> id, user_id |-> userId, status |-> status]
StoredMeal(id, planId) == [id |-> id, diet_plan_id |-> planId]
StoredLog(id, mealId) == [id |-> id, meal_id |-> mealId]

\* the databases the calls start from: the user has at most one active plan
InitialStores ==
    { EmptyStore,
      [plans |-> <<StoredPlan(1, CurrentUser, "active")>>,
       meals |-> {}, meal_logs |-> {}, nextId |-> 2],
      [plans |-> <<StoredPlan(1, CurrentUser, "active"), StoredPlan(2, CurrentUser, "paused"),
                   StoredPlan(3, OtherUser, "active")>>,
       meals |-> {StoredMeal(1, 1), StoredMeal(2, 1), StoredMeal(3, 2), StoredMeal(4, 3)},
       meal_logs |-> {StoredLog(1, 1), StoredLog(2, 3), StoredLog(3, 4)},
       nextId |-> 4] }

\* the plan ids a call is made with: those of the rows, and one of no row
PlanIdsOf(st) == {st.plans[r].id : r \in 1..Len(st.plans)} \cup {0}

\* update({status: 'paused'}).eq('user_id', userId).eq('status', 'active').neq('id', planId)
PauseOtherActivePlans(table, userId, planId) ==
    [r \in 1..Len(table) |->
        IF table[r].user_id = userId /\ table[r].status = "active" /\ table[r].id # planId
        THEN [table[r] EXCEPT !.status = "paused"]
        ELSE table[r]]

\* .eq('id', planId).eq('user_id', userId) matches a row
OwnsPlan(table, planId, userId) ==
    \E r \in 1..Len(table) : table[r].id = planId /\ table[r].user_id = userId

\* update({status}).eq('id', planId).eq('user_id', userId)
SetPlanStatus(table, planId, userId, status) ==
    [r \in 1..Len(table) |->
        IF table[r].id = planId /\ table[r].user_id = userId
        THEN [table[r] EXCEPT !.status = status]
        ELSE table[r]]

\* a database whose foreign keys would not cascade: the meals and meal logs of
\* a deleted plan stay
DeleteWithoutCascade(st, planId, userId) ==
    [st EXCEPT !.plans = SelectSeq(st.plans,
                            LAMBDA row : ~(row.id = planId /\ row.user_id = userId))]

\* delete().eq('id', planId).eq('user_id', userId), with meals_diet_plan_id_fkey
\* and meal_logs_meal_id_fkey ON DELETE CASCADE
DeleteCascade(st, planId, userId) ==
    IF ~OwnsPlan(st.plans, planId, userId) THEN st
    ELSE LET gone == {m \in st.meals : m.diet_plan_id = planId}
         IN  [st EXCEPT !.plans = SelectSeq(st.plans, LAMBDA row : row.id # planId),
                        !.meals = st.meals \ gone,
                        !.meal_logs = {l \in st.meal_logs :
                                          \A m \in gone : l.meal_id # m.id}]

\* the session as a call of op leaves it at its first await
Begun(sess, op, planId, await) ==
    [sess EXCEPT !.op = op, !.pc = await, !.planId = planId, !.paused = "none",
                 !.result = "none", !.plan = 0, !.before = store]

\* the session when its call has returned the plan or has thrown
Ended(sess, result, plan) ==
    [sess EXCEPT !.pc = "idle", !.result = result, !.plan = plan, !.done = sess.done + 1]

\* createDietPlan is called with status 'active': it awaits the update that
\* pauses the user's active plans
CallCreate(s, limit) ==
    /\ sessions[s].pc = "idle"
    /\ sessions[s].done < limit
    /\ sessions' = [sessions EXCEPT ![s] = Begun(sessions[s], "create", 0, "pausing")]
    /\ UNCHANGED <<pipeline, calls, scan, batch, invocations, store, parseCall>>

\* updateDietPlanStatus(planId, userId, 'active') is called: it awaits the
\* update that pauses the user's other active plans
CallUpdate(s, limit) ==
    /\ sessions[s].pc = "idle"
    /\ sessions[s].done < limit
    /\ \E planId \in PlanIdsOf(store) :
          sessions' = [sessions EXCEPT ![s] = Begun(sessions[s], "update", planId, "pausing")]
    /\ UNCHANGED <<pipeline, calls, scan, batch, invocations, store, parseCall>>

\* the pausing update settles; what it returns is not looked at, and the
\* insert or the update of the plan is awaited
PauseSettles(s) ==
    /\ sessions[s].pc = "pausing"
    /\ \E ok \in BOOLEAN :
          /\ store' = IF ~ok THEN store
                      ELSE IF sessions[s].op = "create"
                      THEN [store EXCEPT !.plans = PauseActivePlans(store.plans, CurrentUser)]
                      ELSE [store EXCEPT !.plans = PauseOtherActivePlans(store.plans, CurrentUser,
                                                                         sessions[s].planId)]
          /\ sessions' = [sessions EXCEPT ![s].pc = "writing",
                                          ![s].paused = IF ok THEN "ok" ELSE "error"]
    /\ UNCHANGED <<pipeline, calls, scan, batch, invocations, parseCall>>

\* the insert of createDietPlan settles: the row is returned, or the error thrown
InsertSettles(s) ==
    /\ sessions[s].pc = "writing"
    /\ sessions[s].op = "create"
    /\ \E ok \in BOOLEAN :
          IF ok
          THEN /\ store' = [store EXCEPT
                              !.plans = Append(store.plans,
                                               StoredPlan(store.nextId, CurrentUser, "active")),
                              !.nextId = store.nextId + 1]
               /\ sessions' = [sessions EXCEPT ![s] = Ended(sessions[s], "returned", store.nextId)]
          ELSE /\ sessions' = [sessions EXCEPT ![s] = Ended(sessions[s], "threw", 0)]
               /\ UNCHANGED store
    /\ UNCHANGED <<pipeline, calls, scan, batch, invocations, parseCall>>

\* the update of updateDietPlanStatus settles: single() returns the row, or an
\* error when no row or no answer came back, which is thrown
StatusUpdateSettles(s) ==
    /\ sessions[s].pc = "writing"
    /\ sessions[s].op = "update"
    /\ \E ok \in BOOLEAN :
          IF ok /\ OwnsPlan(store.plans, sessions[s].planId, CurrentUser)
          THEN /\ store' = [store EXCEPT !.plans = SetPlanStatus(store.plans, sessions[s].planId,
                                                                 CurrentUser, "active")]
               /\ sessions' = [sessions EXCEPT
                                 ![s] = Ended(sessions[s], "returned", sessions[s].planId)]
          ELSE /\ sessions' = [sessions EXCEPT ![s] = Ended(sessions[s], "threw", 0)]
               /\ UNCHANGED store
    /\ UNCHANGED <<pipeline, calls, scan, batch, invocations, parseCall>>

\* deleteDietPlan(planId, userId) is called: it awaits the select of step 1
CallDelete(s, limit) ==
    /\ sessions[s].pc = "idle"
    /\ sessions[s].done < limit
    /\ \E planId \in PlanIdsOf(store) :
          sessions' = [sessions EXCEPT ![s] = Begun(sessions[s], "delete", planId, "verifying")]
    /\ UNCHANGED <<pipeline, calls, scan, batch, invocations, store, parseCall>>

\* step 1 settles: an error, or no row of the user with that id, is thrown
\* again by the catch clause; otherwise the select of step 2 is awaited
VerifySettles(s) ==
    /\ sessions[s].pc = "verifying"
    /\ \E ok \in BOOLEAN :
          sessions' = [sessions EXCEPT ![s] =
                         IF ok /\ OwnsPlan(store.plans, sessions[s].planId, CurrentUser)
                         THEN [sessions[s] EXCEPT !.pc = "counting"]
                         ELSE Ended(sessions[s], "threw", 0)]
    /\ UNCHANGED <<pipeline, calls, scan, batch, invocations, store, parseCall>>

\* step 2 settles: the meals are counted for the log, an error is only warned of
CountSettles(s) ==
    /\ sessions[s].pc = "counting"
    /\ sessions' = [sessions EXCEPT ![s].pc = "deleting"]
    /\ UNCHANGED <<pipeline, calls, scan, batch, invocations, store, parseCall>>

\* step 3 settles: an error, or a count of 0 rows, is thrown; otherwise the
\* row is gone and the select of step 4 is awaited
DeleteSettles(s) ==
    /\ sessions[s].pc = "deleting"
    /\ \E ok \in BOOLEAN :
          IF ok
          THEN /\ store' = DeleteCascade(store, sessions[s].planId, CurrentUser)
               /\ sessions' = [sessions EXCEPT ![s] =
                                 IF OwnsPlan(store.plans, sessions[s].planId, CurrentUser)
                                 THEN [sessions[s] EXCEPT !.pc = "checking"]
                                 ELSE Ended(sessions[s], "threw", 0)]
          ELSE /\ sessions' = [sessions EXCEPT ![s] = Ended(sessions[s], "threw", 0)]
               /\ UNCHANGED store
    /\ UNCHANGED <<pipeline, calls, scan, batch, invocations, parseCall>>

\* step 4 settles: an error is only warned of; a row that is still there is
\* thrown as 'plan still exists'; otherwise deleteDietPlan returns
CheckSettles(s) ==
    /\ sessions[s].pc = "checking"
    /\ \E ok \in BOOLEAN :
          sessions' = [sessions EXCEPT ![s] =
                         IF ok /\ \E r \in 1..Len(store.plans) :
                                     store.plans[r].id = sessions[s].planId
                         THEN Ended(sessions[s], "threw", 0)
                         ELSE Ended(sessions[s], "returned", sessions[s].planId)]
    /\ UNCHANGED <<pipeline, calls, scan, batch, invocations, store, parseCall>>

InitTables ==
    /\ PipelineIdle
    /\ calls = << >>
    /\ scanText = << >>
    /\ scanResult = NoScan
    /\ NoBatch
    /\ invocations = NoInvocations
    /\ store \in InitialStores
    /\ sessions = [s \in SessionIds |-> NoSession]
    /\ parseCall = NoParseCall

\* one tab: createDietPlan and updateDietPlanStatus called one after the other
NextActivate ==
    \/ CallCreate(1, MaxSerialCalls)
    \/ CallUpdate(1, MaxSerialCalls)
    \/ PauseSettles(1)
    \/ InsertSettles(1)
    \/ StatusUpdateSettles(1)

SpecActivate == InitTables /\ [][NextActivate]_vars

\* one tab: deleteDietPlan called one time after the other
NextDelete ==
    \/ CallDelete(1, MaxSerialCalls)
    \/ VerifySettles(1)
    \/ CountSettles(1)
    \/ DeleteSettles(1)
    \/ CheckSettles(1)

SpecDelete == InitTables /\ [][NextDelete]_vars

\* two tabs, each calling createDietPlan
NextRace ==
    \E s \in SessionIds :
        \/ CallCreate(s, MaxRaceCalls)
        \/ PauseSettles(s)
        \/ InsertSettles(s)

SpecRace == InitTables /\ [][NextRace]_vars

(***************************************************************************)
(* The parsing stage alone, for answers that are well-formed as they stand *)
(***************************************************************************)
InitPreserve ==
    /\ AuxIdle
    /\ apiKeyEnv = "AIzaSy-key"
    /\ pc = "Parsing"
    /\ request = ValidatorRequest
    /\ dailyCalories = DailyCaloriesOf(request.userProfile)
    /\ prompt = BuildPrompt(request.userProfile, request.preferences, dailyCalories)
    /\ fetchCount = 1
    /\ responseText \in PreservedTexts
    /\ settlement = AnswerOf(responseText)
    /\ parsedPlan = JUndefined
    /\ parseLog = NoParse
    /\ verdict = "none"
    /\ failure = "none"
    /\ generatedPlan = JUndefined
    /\ wizard = "generating"
    /\ dietPlans = << >>

NextPreserve == ParseResponse

SpecPreserve == InitPreserve /\ [][NextPreserve]_vars

(***************************************************************************)
(* validateAndParseJson called alone, with the text of an object that has  *)
(* lost its last closing characters                                        *)
(***************************************************************************)
MaxCut == 3

\* objects with arrays in them
ArrayTexts ==
    { Stringify(obj) : obj \in
        { ObjectOf(<< <<(<<"a">>), JArr(<<JNum(1)>>)>> >>),
          ObjectOf(<< <<(<<"a">>), JArr(<<JArr(<<JNum(1)>>)>>)>> >>),
          ObjectOf(<< <<(<<"a">>), JArr(<<ObjectOf(<< <<(<<"b">>), JNum(1)>> >>)>>)>> >>),
          ObjectOf(<< <<(<<"a">>), ObjectOf(<< <<(<<"b">>), JArr(<<JNum(1)>>)>> >>)>> >>),
          ObjectOf(<< <<(<<"a">>), JArr(<<JNum(1)>>)>>,
                      <<(<<"b">>), ObjectOf(<< <<(<<"c">>), JArr(<<JNum(2)>>)>> >>)>> >>) } }

\* the last k characters of whole are closing braces and brackets
EndsInClosers(whole, k) ==
    /\ k <= Len(whole)
    /\ \A i \in (Len(whole) - k + 1)..Len(whole) : whole[i] \in {"}", "]"}

\* whole without its last k characters
CutClosers(whole, k) == SubSeq(whole, 1, Len(whole) - k)

\* [whole, jsonString] for every text and every cut
CutCalls ==
    { [whole |-> whole, jsonString |-> CutClosers(whole, k)] :
        whole \in WellFormedTexts \cup ArrayTexts,
        k \in 1..MaxCut }

ParseAlone ==
    /\ ~parseCall.done
    /\ parseCall' = [parseCall EXCEPT !.done = TRUE,
                                      !.result = validateAndParseJson(parseCall.jsonString)]
    /\ UNCHANGED <<pipeline, calls, scan, batch, invocations, tables>>

InitCut ==
    /\ PipelineIdle
    /\ calls = << >>
    /\ scanText = << >>
    /\ scanResult = NoScan
    /\ NoBatch
    /\ invocations = NoInvocations
    /\ TablesIdle
    /\ \E call \in {c \in CutCalls :
                      EndsInClosers(c.whole, Len(c.whole) - Len(c.jsonString))} :
          parseCall = [NoParseCall EXCEPT !.whole = call.whole,
                                          !.jsonString = call.jsonString]

NextCut == ParseAlone

SpecCut == InitCut /\ [][NextCut]_vars

(***************************************************************************)
(* Properties                                                              *)
(***************************************************************************)
Done == {"DoneAIPlan", "DoneFallbackPlan"}
NoKey == {"<undefined>", "", "demo-key"}

\* the days of a plan and the meals of a day
DaysOf(plan) == Prop(plan, KeyMeals).a
MealsOfDay(day) == Prop(day, KeyMeals).a
HasDays(plan) == plan.t = "object" /\ Prop(plan, KeyMeals).t = "array"
HasMeals(day) == day.t = "object" /\ Prop(day, KeyMeals).t = "array"

\* a meal as the GeneratedMeal type promises it: a non-empty name, one of the
\* four meal types, calories that are a number and not negative
WellFormedMeal(meal) ==
    /\ Prop(meal, KeyName).t = "string" /\ Prop(meal, KeyName).s # << >>
    /\ Prop(meal, KeyMealType).t = "string" /\ Prop(meal, KeyMealType).s \in MealTypes
    /\ Prop(meal, KeyCalories).t = "number" /\ Prop(meal, KeyCalories).n >= 0

WellFormedPlan(plan) ==
    /\ HasDays(plan)
    /\ Len(DaysOf(plan)) = 7
    /\ \A d \in 1..Len(DaysOf(plan)) :
          /\ HasMeals(DaysOf(plan)[d])
          /\ Len(MealsOfDay(DaysOf(plan)[d])) >= 1
          /\ \A m \in 1..Len(MealsOfDay(DaysOf(plan)[d])) :
                WellFormedMeal(MealsOfDay(DaysOf(plan)[d])[m])

\* the plan the fallback generator builds for the request
ExpectedFallback ==
    FallbackPlan(DailyCaloriesOf(request.userProfile), request.preferences,
                 request.userProfile)

\* C1: whatever the model call does, the plan generateDietPlan returns has 7
\* days, each with at least one meal, and every meal has a non-empty name, a
\* mealType among breakfast, lunch, dinner and snack, and calories >= 0.
C1_ReturnedPlanWellFormed ==
    pc \in Done => WellFormedPlan(generatedPlan)

\* C2: a failure of any kind is caught inside generateDietPlan: no error ever
\* leaves it, and a request that has failed ends with the fallback plan returned.
C2_FailuresEndInFallback ==
    /\ [](pc # "Threw")
    /\ [](failure # "none" =>
            /\ failure \in {"ApiKeyMissing", "TransportError", "MalformedEnvelope",
                            "UnparseableResponse", "InvalidPlanShape"}
            /\ pc \in {"Fallback", "DoneFallbackPlan"}
            /\ (pc = "DoneFallbackPlan" => generatedPlan = ExpectedFallback))
    /\ \A kind \in {"ApiKeyMissing", "TransportError", "MalformedEnvelope",
                    "UnparseableResponse", "InvalidPlanShape"} :
          (failure = kind) ~> (failure = kind /\ pc = "DoneFallbackPlan")

C2_Witness ==
    /\ failure = "MalformedEnvelope"
    /\ pc = "DoneFallbackPlan"
    /\ generatedPlan = ExpectedFallback

\* C3: the model endpoint is called at most once for a request, and never
\* after a failure: a failed request goes on to the fallback generator.
C3_AtMostOneModelCall ==
    /\ [](fetchCount <= 1)
    /\ [][failure # "none" => fetchCount' = fetchCount /\ pc' = "DoneFallbackPlan"]_pc

C3_Witness ==
    /\ fetchCount = 1
    /\ failure = "TransportError"
    /\ pc = "DoneFallbackPlan"

\* the stages of generateDietPlan in the order a request passes them
Rank(stage) ==
    CASE stage = "Idle" -> 0
      [] stage = "ComputingCalories" -> 1
      [] stage = "Prompting" -> 2
      [] stage = "AwaitingModel" -> 3
      [] stage = "Parsing" -> 4
      [] stage = "Validating" -> 5
      [] stage = "Fallback" -> 6
      [] OTHER -> 7

\* C4: a request whose model call settles ends in Done(AIPlan) or in
\* Done(FallbackPlan) and stays there; Done(AIPlan) only after parsing and
\* validation succeeded, Done(FallbackPlan) only after a failure; no step goes
\* back to an earlier stage.
C4_EndsInOneTerminalState ==
    /\ (pc = "ComputingCalories") ~> (pc \in Done)
    /\ [][pc \notin Done /\ Rank(pc') > Rank(pc)]_pc
    /\ [](pc \in {"Idle", "ComputingCalories", "Prompting", "AwaitingModel", "Parsing",
                  "Validating", "Fallback"} \cup Done)
    /\ [](pc = "DoneAIPlan" =>
            /\ failure = "none" /\ verdict = "valid"
            /\ ParseTable[responseText].ok
            /\ generatedPlan = ParseTable[responseText].v)
    /\ [](pc = "DoneFallbackPlan" =>
            /\ failure # "none"
            /\ failure \in {"ApiKeyMissing", "TransportError", "MalformedEnvelope"}
                 => verdict = "none" /\ parsedPlan = JUndefined
            /\ failure = "UnparseableResponse" => ~ParseTable[responseText].ok
            /\ failure = "InvalidPlanShape" => verdict = "invalid")

C4_Witness ==
    /\ pc = "DoneAIPlan"
    /\ verdict = "valid"
    /\ fetchCount = 1

\* C5: without a credential (the key unset, empty, or the placeholder
\* 'demo-key') no fetch is ever made; the request fails with ApiKeyMissing and
\* only the fallback plan can be returned.
C5_NoFetchWithoutKey ==
    apiKeyEnv \in NoKey =>
        /\ fetchCount = 0
        /\ pc \in {"Idle", "ComputingCalories", "Prompting", "Fallback", "DoneFallbackPlan"}
        /\ failure \in {"none", "ApiKeyMissing"}
        /\ pc \in {"Fallback", "DoneFallbackPlan"} => failure = "ApiKeyMissing"
        /\ pc = "DoneFallbackPlan" => generatedPlan = ExpectedFallback

C5_Witness ==
    /\ apiKeyEnv = "demo-key"
    /\ failure = "ApiKeyMissing"
    /\ fetchCount = 0
    /\ pc = "DoneFallbackPlan"


\* the row the request has inserted into diet_plans
CreatedRow == dietPlans[Len(dietPlans)]

\* C6: when makeRequest fails with ApiKeyMissing, the plan returned is the
\* fallback plan of 7 days, with 3 meals a day for mealsPerDay = 3 and with the
\* Caloric Model's output as totalCalories, and the row persisted for the
\* request says that the plan is not AI-generated.
C6_KeyMissingEndToEnd ==
    (failure = "ApiKeyMissing" /\ pc = "DoneFallbackPlan") =>
        /\ generatedPlan = ExpectedFallback
        /\ Len(DaysOf(generatedPlan)) = 7
        /\ request.preferences.mealsPerDay = 3 =>
              \A d \in 1..7 : Len(MealsOfDay(DaysOf(generatedPlan)[d])) = 3
        /\ Prop(generatedPlan, KeyTotalCalories) =
              JNum(DailyCaloriesOf(request.userProfile))
        /\ wizard = "planCreated" => CreatedRow.ai_generated = FALSE

\* C7: a parsed plan whose number of days is not 7 is rejected by the
\* validator, and generateDietPlan returns the fallback plan for it, never a
\* plan made from the rejected one.
C7_WrongDayCountRejected ==
    (HasDays(parsedPlan) /\ Len(DaysOf(parsedPlan)) # 7) =>
        /\ pc \in {"Validating", "Fallback", "DoneFallbackPlan"}
        /\ verdict # "valid"
        /\ pc # "Validating" => verdict = "invalid" /\ failure = "InvalidPlanShape"
        /\ pc = "DoneFallbackPlan" => generatedPlan = ExpectedFallback

C7_Witness ==
    /\ HasDays(parsedPlan)
    /\ Len(DaysOf(parsedPlan)) = 6
    /\ verdict = "invalid"
    /\ pc = "DoneFallbackPlan"
    /\ Len(DaysOf(generatedPlan)) = 7

\* a meal with a non-empty name, one of the four meal types and numeric calories
RecognizedMeal(meal) ==
    /\ Truthy(Prop(meal, KeyName))
    /\ Prop(meal, KeyMealType).t = "string" /\ Prop(meal, KeyMealType).s \in MealTypes
    /\ Prop(meal, KeyCalories).t = "number"

\* C8: the validator accepts a plan only if every meal of every day has a
\* non-empty name, a mealType among breakfast, lunch, dinner and snack, and
\* numeric calories.
C8_AcceptsOnlyRecognizedMeals ==
    verdict = "valid" =>
        \A d \in 1..Len(DaysOf(parsedPlan)) :
            \A m \in 1..Len(MealsOfDay(DaysOf(parsedPlan)[d])) :
                RecognizedMeal(MealsOfDay(DaysOf(parsedPlan)[d])[m])

\* a day whose meal list is missing, is no sequence, or is empty
NoMealList(day) == ~HasMeals(day) \/ MealsOfDay(day) = << >>
\* a meal that has a name, a mealType and numeric calories
HasRequiredFields(meal) ==
    /\ Truthy(Prop(meal, KeyName))
    /\ Truthy(Prop(meal, KeyMealType))
    /\ Prop(meal, KeyCalories).t = "number"
SevenDays(plan) == HasDays(plan) /\ Len(DaysOf(plan)) = 7

\* C9: a 7-day plan with a day whose meal list is missing, is no sequence or
\* is empty fails validation; a 7-day plan whose days all have meals, each with
\* a name, a mealType and numeric calories, passes, whatever else is absent.
C9_MealListsDecide ==
    (verdict # "none" /\ SevenDays(parsedPlan)) =>
        /\ (\E d \in 1..7 : NoMealList(DaysOf(parsedPlan)[d])) => verdict = "invalid"
        /\ (\A d \in 1..7 :
              /\ ~NoMealList(DaysOf(parsedPlan)[d])
              /\ \A m \in 1..Len(MealsOfDay(DaysOf(parsedPlan)[d])) :
                    HasRequiredFields(MealsOfDay(DaysOf(parsedPlan)[d])[m]))
             => verdict = "valid"

C9_Witness ==
    /\ SevenDays(parsedPlan)
    /\ HasMeals(DaysOf(parsedPlan)[3])
    /\ MealsOfDay(DaysOf(parsedPlan)[3]) = << >>
    /\ \A d \in {1, 2, 4, 5, 6, 7} : ~NoMealList(DaysOf(parsedPlan)[d])
    /\ verdict = "invalid"

\* C10: for the calories of the Caloric Model and mealsPerDay from 3 to 6 the
\* fallback generator returns a plan that passes validateDietPlanStructure; its
\* 'Fallback diet plan generation failed' error does not occur.
C10_FallbackNeverFails ==
    /\ pc # "Threw"
    /\ pc = "DoneFallbackPlan" =>
          /\ request.preferences.mealsPerDay \in MinMealsPerDay..MaxMealsPerDay
          /\ dailyCalories = DailyCaloriesOf(request.userProfile)
          /\ generatedPlan = ExpectedFallback
          /\ validateDietPlanStructure(generatedPlan)

C10_Witness ==
    /\ pc = "DoneFallbackPlan"
    /\ request.preferences.mealsPerDay = MaxMealsPerDay
    /\ validateDietPlanStructure(generatedPlan)

\* C11: in every plan the fallback generator builds, each of the 7 days has
\* exactly mealsPerDay meals, for the requested mealsPerDay from 3 to 6.
C11_EachDayHasMealsPerDayMeals ==
    (pc = "DoneFallbackPlan"
       /\ request.preferences.mealsPerDay \in MinMealsPerDay..MaxMealsPerDay) =>
        /\ Len(DaysOf(generatedPlan)) = 7
        /\ \A d \in 1..7 :
              Len(MealsOfDay(DaysOf(generatedPlan)[d])) = request.preferences.mealsPerDay

\* the template chosen for a meal is known by the meal's name
SameShape(planA, planB) ==
    /\ Len(DaysOf(planA)) = Len(DaysOf(planB))
    /\ \A d \in 1..Len(DaysOf(planA)) :
          LET mealsA == MealsOfDay(DaysOf(planA)[d])
              mealsB == MealsOfDay(DaysOf(planB)[d])
          IN  /\ Len(mealsA) = Len(mealsB)
              /\ \A m \in 1..Len(mealsA) :
                    /\ Prop(mealsA[m], KeyMealType) = Prop(mealsB[m], KeyMealType)
                    /\ Prop(mealsA[m], KeyName) = Prop(mealsB[m], KeyName)

FourBMR(profile) ==
    40 * profile.weight + 25 * profile.height - 20 * profile.age
      + (IF profile.gender = "male" THEN 20 ELSE -644)

\* 1000 * the activity factor, 1.2 for a level outside the table
FactorPerMille(activityLevel) ==
    IF activityLevel = "light" THEN 1375
    ELSE IF activityLevel = "moderate" THEN 1550
    ELSE IF activityLevel = "active" THEN 1725
    ELSE IF activityLevel = "very_active" THEN 1900
    ELSE 1200

GoalAdjustment(goal) ==
    IF goal = "weight_loss" THEN -500 ELSE IF goal = "muscle_gain" THEN 300 ELSE 0

\* 4000 * (BMR * factor + adj)
TargetTimes4000(profile) ==
    FourBMR(profile) * FactorPerMille(profile.activityLevel)
      + 4000 * GoalAdjustment(profile.goal)

\* the profile of the spec's example
ExampleProfile ==
    [age |-> 30, gender |-> "male", height |-> 180, weight |-> 80,
     activityLevel |-> "sedentary", goal |-> "maintenance", timelineWeeks |-> 12]

RECURSIVE QuoteState(_, _)
QuoteState(text, n) ==
    IF n = 0 THEN [quoted |-> FALSE, escaped |-> FALSE]
    ELSE LET before == QuoteState(text, n - 1)
             char == text[n]
         IN  IF before.escaped THEN [before EXCEPT !.escaped = FALSE]
             ELSE IF before.quoted /\ char = BS THEN [before EXCEPT !.escaped = TRUE]
             ELSE IF char = DQ THEN [before EXCEPT !.quoted = ~before.quoted]
             ELSE before

\* the character at i is the given brace and stands outside the quoted strings
BraceAt(text, i, brace) ==
    text[i] = brace /\ ~QuoteState(text, i - 1).quoted /\ ~QuoteState(text, i).quoted

\* the brace depth at j counted from the opening brace at i
DepthFrom(text, i, j) ==
    Cardinality({k \in i..j : BraceAt(text, k, "{")})
      - Cardinality({k \in i..j : BraceAt(text, k, "}")})

\* the first opening brace outside the quoted strings (0: none)
FirstOpen(text) ==
    IF \E i \in 1..Len(text) : BraceAt(text, i, "{")
    THEN SetMin({i \in 1..Len(text) : BraceAt(text, i, "{")}) ELSE 0

\* the closing brace that returns the depth counted from i to zero (0: none)
MatchOf(text, i) ==
    IF \E j \in i..Len(text) : DepthFrom(text, i, j) = 0
    THEN SetMin({j \in i..Len(text) : DepthFrom(text, i, j) = 0}) ELSE 0

\* C14: for a text whose first opening brace outside the quoted strings has a
\* matching closing brace, extractJsonFromText returns the span from that
\* opening brace to the closing brace that returns the depth to zero, braces
\* inside strings not counted, and drops the text before and after the span.
C14_ExtractsFirstObject ==
    (scanResult.done /\ FirstOpen(scanText) # 0
       /\ MatchOf(scanText, FirstOpen(scanText)) # 0) =>
        scanResult.text =
            SubSeq(scanText, FirstOpen(scanText), MatchOf(scanText, FirstOpen(scanText)))

\* the well-formed text an answer cut short was cut from
WholeOf(cut) == SubSeq(cut, 1, Len(cut) - 1) \o <<"}", "}">>

\* C15: the text of a well-formed object with its last two closing braces
\* removed and a comma left at the cut is parsed by cleanJsonResponse and
\* validateAndParseJson, and the object parsed equals the one parsed from the
\* well-formed text.
C15_RepairRestoresObject ==
    (pc # "Parsing" /\ responseText \in RepairTexts) =>
        /\ failure = "none"
        /\ pc = "Validating"
        /\ JSONParse(WholeOf(responseText)).ok
        /\ parsedPlan = JSONParse(WholeOf(responseText)).v

\* the two texts validateAndParseJson can hand to JSON.parse for an answer
DirectText == cleanJsonResponse(responseText)
RepairedText == FixJson(DirectText)

\* C16: validateAndParseJson parses at most twice, the text as it is and then
\* the repaired text once; when both attempts fail it fails with the error of
\* the first attempt, not with that of the repair attempt.
C16_TwoAttemptsFirstError ==
    /\ parseLog.attempts \in {0, 1, 2}
    /\ pc # "Parsing" =>
          /\ parseLog.attempts \in {1, 2}
          /\ parseLog.attempts = 1 <=> ParseAttempt(DirectText).ok
          /\ failure = "UnparseableResponse" <=>
                (~ParseAttempt(DirectText).ok /\ ~ParseAttempt(RepairedText).ok)
          /\ failure = "UnparseableResponse" =>
                /\ parseLog.attempts = 2
                /\ parseLog.error = ParseAttempt(DirectText).next

C16_Witness ==
    /\ failure = "UnparseableResponse"
    /\ parseLog.attempts = 2
    /\ parseLog.error = ParseAttempt(DirectText).next
    /\ parseLog.error # ParseAttempt(RepairedText).next

\* fetch settled with a response of a success status whose body is JSON
SuccessStatus == settlement.kind = "response" /\ settlement.ok /\ settlement.json

\* the first element of an array-valued property, or undefined
FirstOf(v, key) ==
    IF Prop(v, key).t = "array" /\ Len(Prop(v, key).a) > 0
    THEN Prop(v, key).a[1] ELSE JUndefined

\* the text at candidates[0].content.parts[0].text, or undefined
EnvelopeText(body) ==
    Prop(FirstOf(Prop(FirstOf(body, KeyCandidates), KeyContent), KeyParts), KeyText)

\* {candidates: [{content: {parts: [{text: string}]}}]}
WellShaped(body) == EnvelopeText(body).t = "string"

\* C17: makeRequest returns a text only for a response of a success status
\* whose body has the shape {candidates: [{content: {parts: [{text: string}]}}]},
\* and the text is the one at that place; for a body that lacks a level of the
\* shape, or has it null, empty or of another type, it fails with 'Unexpected
\* response format', not with another error.
C17_EnvelopeChecked ==
    settlement.kind # "none" =>
        /\ (SuccessStatus /\ WellShaped(settlement.body)) =>
              /\ failure \notin {"TransportError", "MalformedEnvelope"}
              /\ responseText = EnvelopeText(settlement.body).s
        /\ (SuccessStatus /\ ~WellShaped(settlement.body)) => failure = "MalformedEnvelope"
        /\ ~SuccessStatus => failure = "TransportError"

C17_Witness ==
    /\ SuccessStatus
    /\ settlement.body \in BadEnvelopes
    /\ Prop(FirstOf(settlement.body, KeyCandidates), KeyContent) = JNull
    /\ failure = "MalformedEnvelope"
    /\ pc = "DoneFallbackPlan"

\* how many entries of the log say what
CountLog(what) == Cardinality({i \in 1..Len(mealLog) : mealLog[i] = what})

\* table grows to later by rows added at its end
GrowsTo(table, later) ==
    /\ Len(table) <= Len(later)
    /\ \A r \in 1..Len(table) : later[r] = table[r]

\* C18: when the recipe or the meal insert of one meal fails while a generated
\* plan is saved, the failure is logged and the meal is skipped: no row
\* written for earlier meals (or the recipe of this one) is taken back, every
\* later meal is still attempted, the request never ends in the error modal,
\* and it ends in the success path with every meal counted
C18_FailedMealSkipped ==
    /\ [](wizard # "error")
    /\ [][/\ GrowsTo(recipes, recipes')
          /\ GrowsTo(meals, meals')
          /\ dietPlans' = dietPlans
          /\ GrowsTo(mealLog, mealLog')]_vars
    /\ [](wizard \in {"creatingRecipe", "insertingMeal", "loadingData", "success"}
            => /\ Len(mealLog) = mealIndex - 1
               /\ createdMealsCount = mealIndex - 1
               /\ Len(meals) = CountLog("Created meal entry")
               /\ Len(recipes) = Len(meals) + CountLog("Failed to create meal entry")
                                 + (IF wizard = "insertingMeal" THEN 1 ELSE 0))
    /\ [](wizard \in {"loadingData", "success"}
            => /\ Len(mealLog) = Len(MealsToCreate(generatedPlan))
               /\ createdMealsCount = totalMealsToCreate
               /\ totalMealsToCreate = Len(MealsToCreate(generatedPlan)))
    /\ (wizard = "planCreated") ~> (wizard = "success")

\* the success path is reached although the recipe of the first meal and the
\* meal entry of the second failed; the recipe of the second meal stays
C18_Witness ==
    /\ wizard = "success"
    /\ Len(mealLog) >= 3
    /\ mealLog[1] = "Failed to create meal"
    /\ mealLog[2] = "Failed to create meal entry"
    /\ mealLog[3] = "Created meal entry"
    /\ Len(recipes) = Len(meals) + 1
    /\ createdMealsCount = totalMealsToCreate

\* what generateDietPlan returns for a request and the settlement of its
\* fetch when nothing else runs
ReturnAlone(env, req, settled) ==
    LET alone == [NoLocals EXCEPT !.request = req,
                                  !.dailyCalories = DailyCaloriesOf(req.userProfile)]
    IN  IF ApiKeyMissing(env) THEN FallbackReturn(alone) ELSE ResumeWith(alone, settled)

Returned(r) == invocations[r].pc \in {"DoneAIPlan", "DoneFallbackPlan", "Threw"}

IsRounded(v, num, den) ==
    /\ v \in Int
    /\ 2 * den * v - den <= 2 * num
    /\ 2 * num < 2 * den * v + den

Magnitude(i) == IF i < 0 THEN -i ELSE i

\* the whole number a property of a meal holds
Grams(meal, key) == Prop(meal, key).n

MealMacrosDerived(meal, target, mealsPerDay) ==
    LET cal == Grams(meal, KeyCalories)
        protein == Grams(meal, KeyProtein)
        carbs == Grams(meal, KeyCarbs)
        fat == Grams(meal, KeyFat)
    IN  /\ \A key \in {KeyCalories, KeyProtein, KeyCarbs, KeyFat} :
              Prop(meal, key).t = "number" /\ Prop(meal, key).f = << >>
        /\ IsRounded(cal, target, mealsPerDay)
        /\ IsRounded(protein, 25 * cal, 400)
        /\ IsRounded(carbs, 45 * cal, 400)
        /\ IsRounded(fat, 30 * cal, 900)
        /\ 2 * Magnitude(4 * protein + 4 * carbs + 9 * fat - cal) <= 17

\* C20: every meal of a fallback plan has calories = round(targetCalories /
\* mealsPerDay), protein = round(calories*0.25/4), carbs =
\* round(calories*0.45/4) and fat = round(calories*0.30/9), and 4*protein +
\* 4*carbs + 9*fat differs from the calories by no more than the rounding of
\* the three macros to whole grams allows (4/2 + 4/2 + 9/2 = 8.5)
C20_FallbackMacrosDerived ==
    pc = "DoneFallbackPlan" =>
       \A d \in 1..Len(Prop(generatedPlan, KeyMeals).a) :
          LET day == Prop(generatedPlan, KeyMeals).a[d]
          IN  \A m \in 1..Len(Prop(day, KeyMeals).a) :
                 MealMacrosDerived(Prop(day, KeyMeals).a[m], dailyCalories,
                                   request.preferences.mealsPerDay)

\* a fallback plan of 5 meals a day whose calories per meal are not a
\* multiple of 400, so that the division and all three macros are rounded
C20_Witness ==
    /\ pc = "DoneFallbackPlan"
    /\ request.preferences.mealsPerDay = 5
    /\ dailyCalories % 5 # 0
    /\ LET meal == Prop(Prop(generatedPlan, KeyMeals).a[7], KeyMeals).a[5]
           cal == Grams(meal, KeyCalories)
       IN  /\ (25 * cal) % 400 # 0
           /\ (45 * cal) % 400 # 0
           /\ (30 * cal) % 900 # 0
           /\ 4 * Grams(meal, KeyProtein) + 4 * Grams(meal, KeyCarbs)
                + 9 * Grams(meal, KeyFat) # cal

\* the names of the week, Monday first
WeekNames ==
    << <<"M", "o", "n", "d", "a", "y">>, <<"T", "u", "e", "s", "d", "a", "y">>,
       <<"W", "e", "d", "n", "e", "s", "d", "a", "y">>, <<"T", "h", "u", "r", "s", "d", "a", "y">>,
       <<"F", "r", "i", "d", "a", "y">>, <<"S", "a", "t", "u", "r", "d", "a", "y">>,
       <<"S", "u", "n", "d", "a", "y">> >>

\* the days of the plan returned
PlanDays == Prop(generatedPlan, KeyMeals).a

\* C21: in every fallback plan the day at position i (1..7) has dayNumber i
\* and the i-th name of the week, Monday first; the day numbers are distinct
\* and strictly increasing, and totalDayCalories of every day is the plan's
\* totalCalories
C21_FallbackDaysNumbered ==
    pc = "DoneFallbackPlan" =>
       /\ Len(PlanDays) = 7
       /\ \A i \in 1..Len(PlanDays) :
             /\ Prop(PlanDays[i], KeyDayNumber) = JNum(i)
             /\ i <= 7 => Prop(PlanDays[i], KeyDayName) = JStr(WeekNames[i])
             /\ Prop(PlanDays[i], KeyTotalDayCalories) = Prop(generatedPlan, KeyTotalCalories)
             /\ Prop(PlanDays[i], KeyTotalDayCalories).t = "number"
       /\ \A i, j \in 1..Len(PlanDays) :
             i < j => Prop(PlanDays[i], KeyDayNumber).n < Prop(PlanDays[j], KeyDayNumber).n

\* a fallback plan whose first day is Monday, numbered 1, and whose last day
\* is Sunday, numbered 7, each with the plan's calories
C21_Witness ==
    /\ pc = "DoneFallbackPlan"
    /\ Prop(PlanDays[1], KeyDayName) = JStr(WeekNames[1])
    /\ Prop(PlanDays[7], KeyDayName) = JStr(WeekNames[7])
    /\ Prop(PlanDays[7], KeyDayNumber) = JNum(7)
    /\ Prop(PlanDays[7], KeyTotalDayCalories) = JNum(dailyCalories)
    /\ dailyCalories > 0

\* the meals of the day at position d of the plan returned
MealsAt(d) == Prop(PlanDays[d], KeyMeals).a

\* the library of the meal type a meal states
LibraryOf(meal) ==
    LET mealType == Prop(meal, KeyMealType).s
    IN  CASE mealType = Breakfast -> BreakfastTemplates
          [] mealType = Lunch -> LunchTemplates
          [] mealType = Dinner -> DinnerTemplates
          [] mealType = Snack -> SnackTemplates

\* no template occurs twice in a library
DistinctTemplates(library) ==
    \A a, b \in 1..Len(library) : a # b => library[a] # library[b]

\* C22: the meal of every slot of day index d (0..6) of a fallback plan is the
\* template at index d mod (number of templates) of the library of the slot's
\* type; so a breakfast, lunch or dinner template (7 in each library) is never
\* used on two days of the week, while the snacks (5 templates) wrap around:
\* day 6 has the snack of day 1 and day 7 that of day 2
C22_TemplateByDayIndex ==
    /\ \A library \in {BreakfastTemplates, LunchTemplates, DinnerTemplates, SnackTemplates} :
          DistinctTemplates(library)
    /\ pc = "DoneFallbackPlan" =>
          /\ \A d \in 1..Len(PlanDays) : \A m \in 1..Len(MealsAt(d)) :
                LET meal == MealsAt(d)[m]
                IN  /\ Prop(meal, KeyMealType).s \in MealTypes
                    /\ Prop(meal, KeyName)
                         = JStr(LibraryOf(meal)[((d - 1) % Len(LibraryOf(meal))) + 1])
          /\ \A d, e \in 1..Len(PlanDays) : \A m \in 1..Len(MealsAt(d)) :
                \A k \in 1..Len(MealsAt(e)) :
                   LET meal == MealsAt(d)[m]
                       other == MealsAt(e)[k]
                   IN  /\ (/\ d # e
                           /\ Prop(meal, KeyMealType) = Prop(other, KeyMealType)
                           /\ Len(LibraryOf(meal)) >= 7)
                          => Prop(meal, KeyName) # Prop(other, KeyName)
                       /\ (/\ e = d + Len(LibraryOf(meal))
                           /\ Prop(meal, KeyMealType) = Prop(other, KeyMealType))
                          => Prop(meal, KeyName) = Prop(other, KeyName)

\* a fallback plan with snacks: the snack of Saturday is the first snack
\* template again, the breakfast of Sunday is the seventh breakfast template
C22_Witness ==
    /\ pc = "DoneFallbackPlan"
    /\ Len(MealsAt(6)) >= 4
    /\ Prop(MealsAt(6)[4], KeyMealType) = JStr(Snack)
    /\ Prop(MealsAt(6)[4], KeyName) = JStr(SnackTemplates[1])
    /\ Prop(MealsAt(1)[4], KeyName) = JStr(SnackTemplates[1])
    /\ Prop(MealsAt(7)[1], KeyName) = JStr(BreakfastTemplates[7])
    /\ Prop(MealsAt(1)[1], KeyName) = JStr(BreakfastTemplates[1])

\* the indices of text that hold the character ch
IndicesOf(text, ch) == {i \in 1..Len(text) : text[i] = ch}

\* the loop of extractJsonFromText has ended without a start and an end index
ScanFoundNothing(text) ==
    LET st == ExtractScan(ExtractStart, text, 1, Len(text))
    IN  st.startIndex = 0 \/ st.endIndex = 0

\* the least and the greatest member of a non-empty set of indices
Least(indices) == CHOOSE i \in indices : \A j \in indices : i <= j
Greatest(indices) == CHOOSE i \in indices : \A j \in indices : j <= i

\* C23: when the brace-matching scan of extractJsonFromText finds no balanced
\* span, the result is the text from its first opening brace to its last closing
\* brace if it has both and the first opening brace comes before the last
\* closing brace; otherwise the result is the text unchanged
C23_BoundaryFallback ==
    (scanResult.done /\ ScanFoundNothing(scanText)) =>
       LET opens == IndicesOf(scanText, "{")
           closes == IndicesOf(scanText, "}")
       IN  IF opens # {} /\ closes # {} /\ Least(opens) < Greatest(closes)
           THEN scanResult.text = [i \in 1..(Greatest(closes) - Least(opens) + 1) |->
                                      scanText[Least(opens) + i - 1]]
           ELSE scanResult.text = scanText

\* the scan found no span in a text of four characters with a closing brace
\* before its first opening brace: the result is the last three characters
C23_Witness ==
    /\ scanResult.done
    /\ ScanFoundNothing(scanText)
    /\ Len(scanText) = 4
    /\ scanText[1] = "}" /\ scanText[2] = "{" /\ scanText[4] = "}"
    /\ Len(scanResult.text) = 3
    /\ scanResult.text[1] = "{"

\* the ids of the plans of the user that are active in a database
ActivePlansOf(st, userId) ==
    {st.plans[r].id : r \in {q \in 1..Len(st.plans) :
                                st.plans[q].user_id = userId /\ st.plans[q].status = "active"}}

\* the statuses of the plans of the user, by id
StatusesOf(st, userId) ==
    {<<st.plans[r].id, st.plans[r].status>> :
        r \in {q \in 1..Len(st.plans) : st.plans[q].user_id = userId}}

\* the one tab is between two calls
Between == sessions[1].pc = "idle"

\* C24: after any sequence of completed, non-overlapping calls of
\* createDietPlan with status 'active' and updateDietPlanStatus(planId, userId,
\* 'active') for one user, the user has at most one active plan; after a
\* successful call the active plan is the plan of that call, and every plan
\* that was active before it is paused
C24_AtMostOneActivePlan ==
    Between =>
       /\ Cardinality(ActivePlansOf(store, CurrentUser)) <= 1
       /\ sessions[1].result = "returned" =>
             /\ ActivePlansOf(store, CurrentUser) = {sessions[1].plan}
             /\ \A id \in ActivePlansOf(sessions[1].before, CurrentUser) \ {sessions[1].plan} :
                   <<id, "paused">> \in StatusesOf(store, CurrentUser)

\* the rows of other users in a database
RowsOfOthers(st, userId) ==
    {st.plans[r] : r \in {q \in 1..Len(st.plans) : st.plans[q].user_id # userId}}

\* the meals of a plan in a database, and the meal logs of those meals
MealsOfPlan(st, planId) == {m \in st.meals : m.diet_plan_id = planId}
LogsOfPlan(st, planId) ==
    {l \in st.meal_logs : \E m \in MealsOfPlan(st, planId) : l.meal_id = m.id}

PlanExists(st, planId) == \E r \in 1..Len(st.plans) : st.plans[r].id = planId

\* C25: deleteDietPlan(planId, userId) removes a plan only when a plan with
\* that id owned by userId exists; otherwise it throws and removes no plan,
\* meal or meal log. When it returns, the plan is gone and so are its meals
\* and the meal logs of those meals; plans of other users are never removed
C25_DeleteOwnPlanOnly ==
    /\ [](\A s \in SessionIds :
            (sessions[s].op = "delete" /\ sessions[s].pc = "idle") =>
               LET was == sessions[s].before
                   planId == sessions[s].planId
               IN  /\ ~OwnsPlan(was.plans, planId, CurrentUser)
                        => sessions[s].result = "threw" /\ store = was
                   /\ store.plans # was.plans => OwnsPlan(was.plans, planId, CurrentUser)
                   /\ sessions[s].result = "returned"
                        => /\ ~PlanExists(store, planId)
                           /\ \A m \in MealsOfPlan(was, planId) : m \notin store.meals
                           /\ \A l \in LogsOfPlan(was, planId) : l \notin store.meal_logs
                           /\ MealsOfPlan(store, planId) = {}
                   /\ RowsOfOthers(store, CurrentUser) = RowsOfOthers(was, CurrentUser))
    /\ [][RowsOfOthers(store', CurrentUser) = RowsOfOthers(store, CurrentUser)]_vars

\* deleteDietPlan has returned for a plan of the user that had two meals and
\* a meal log: the three rows are gone, the plan of the other user is there
C25_Witness ==
    /\ sessions[1].op = "delete" /\ sessions[1].pc = "idle"
    /\ sessions[1].result = "returned"
    /\ sessions[1].planId = 1
    /\ Cardinality(MealsOfPlan(sessions[1].before, 1)) = 2
    /\ LogsOfPlan(sessions[1].before, 1) # {}
    /\ store.meals = {StoredMeal(3, 2), StoredMeal(4, 3)}
    /\ store.meal_logs = {StoredLog(2, 3), StoredLog(3, 4)}
    /\ PlanExists(store, 3)

\* the stage after parsing has been reached
Parsed == pc \in {"Validating", "Fallback"}

\* C26: for a text that is a well-formed JSON object as it stands,
\* cleanJsonResponse followed by validateAndParseJson returns the object a
\* direct JSON parse of the text returns; the contents of its strings are
\* kept, also when a string holds '//', '/*', a comma followed by '}' or ']',
\* or a brace
C26_CleanPreservesObject ==
    Parsed =>
       /\ JSONParse(responseText).ok
       /\ pc = "Validating"
       /\ parsedPlan = JSONParse(responseText).v

\* C27: for a well-formed JSON object text W and k >= 1, W without its last k
\* closing characters (braces and brackets in any mix) is repaired by
\* validateAndParseJson into a text that parses to the object of W: the
\* closers appended close the open braces and brackets in the reverse of the
\* order they were opened in
C27_CutClosersRepaired ==
    parseCall.done =>
       /\ JSONParse(parseCall.whole).ok
       /\ parseCall.result.ok
       /\ parseCall.result.v = JSONParse(parseCall.whole).v

\* every call of the two tabs has ended
RaceOver == \A s \in SessionIds : sessions[s].pc = "idle" /\ sessions[s].done > 0

\* C28: under every interleaving of two concurrent createDietPlan calls with
\* status 'active' for the same user, each a pausing step followed by an
\* insert step, the user ends with at most one active plan
C28_RaceLeavesOneActive ==
    RaceOver => Cardinality(ActivePlansOf(store, CurrentUser)) <= 1

\* the same, for the runs in which no statement returns an error
RaceWithoutErrors ==
    (RaceOver /\ \A s \in SessionIds :
                    sessions[s].paused = "ok" /\ sessions[s].result = "returned")
       => Cardinality(ActivePlansOf(store, CurrentUser)) <= 1

\* C29: when createDietPlan with status 'active' or updateDietPlanStatus(planId,
\* userId, 'active') fails (the insert is rejected, or planId is not a plan of
\* the user), the statuses of all plans of the user are as they were before
\* the call: a failed activation never leaves the user with fewer active
\* plans than before
C29_FailedActivationKeepsStatuses ==
    (Between /\ sessions[1].result = "threw") =>
       /\ StatusesOf(store, CurrentUser) = StatusesOf(sessions[1].before, CurrentUser)
       /\ Cardinality(ActivePlansOf(store, CurrentUser))
            >= Cardinality(ActivePlansOf(sessions[1].before, CurrentUser))

\* the sum of the calories of the meals of a list
RECURSIVE SumOfCalories(_)
SumOfCalories(mealList) ==
    IF mealList = << >> THEN 0
    ELSE Grams(Head(mealList), KeyCalories) + SumOfCalories(Tail(mealList))

\* C30: in every fallback plan, for every mealsPerDay from 3 to 6, the calories
\* of the meals of a day add up to the day's totalDayCalories, but for the
\* rounding of the split: they differ by at most mealsPerDay / 2
C30_DaySumNearTarget ==
    pc = "DoneFallbackPlan" =>
       \A d \in 1..Len(PlanDays) :
          2 * Magnitude(SumOfCalories(MealsAt(d)) - Prop(PlanDays[d], KeyTotalDayCalories).n)
             <= request.preferences.mealsPerDay

\* the same for mealsPerDay from 3 to 5 only
DaySumNearTargetUpToFive ==
    (pc = "DoneFallbackPlan" /\ request.preferences.mealsPerDay <= 5) =>
       \A d \in 1..Len(PlanDays) :
          2 * Magnitude(SumOfCalories(MealsAt(d)) - Prop(PlanDays[d], KeyTotalDayCalories).n)
             <= request.preferences.mealsPerDay


====
